---- MODULE Spec2Model ----
(***************************************************************************)
(* A state-machine model of the syscall surface of the ChaOS kernel        *)
(* (os/src/syscall/{process,signal,fs}.rs).  The kernel runs on one hart   *)
(* with interrupts disabled inside the kernel, so every syscall handler is *)
(* one atomic step, except where it calls suspend_current_and_run_next.    *)
(*                                                                         *)
(* The module holds several specifications over the same variables, one    *)
(* per subsystem: SpecBrk (heap), SpecWait (clone/exit/wait4), SpecSig     *)
(* (kill/sigprocmask/sigaction), SpecFd (fd table), SpecFat32File and      *)
(* SpecFat32Dir (FAT32 volume), SpecExec (execve) and SpecSched (stride    *)
(* scheduling).  Each leaves the variables of the other subsystems         *)
(* unchanged.                                                              *)
(***************************************************************************)
EXTENDS Integers, Sequences, FiniteSets, TLC

VARIABLES
    \* ---- PCB inner: heap (process.rs:433-454)
    heap_base,      \* inner.heap_base.0
    heap_end,       \* inner.heap_end.0
    heap_mapped,    \* virtual page numbers handed to memory_set.map_heap
    brk_last,       \* history: the last sys_brk call [addr, ret]
    \* ---- PCB inner: children (process.rs:282-337)
    children,       \* inner.children, a Vec of child pids in insertion order
    is_zombie,      \* child PCB inner.is_zombie, by pid
    exit_code,      \* child PCB inner.exit_code (None or an i32), by pid
    wait_pc,        \* where the caller is: "user" or "suspended" inside sys_wait4
    wait_args,      \* the arguments of the sys_wait4 call in progress
    user_exit_code, \* what the last sys_wait4 stored through exit_code_ptr, if anything
    wait_last,      \* history: the last step of the process subsystem
    \* ---- PCB inner: signals (signal.rs, process.rs:340-352)
    signal_mask,    \* inner.signal_mask of the current task (set of flag bits)
    signals,        \* inner.signals by pid: the pending set (set of flag bits)
    signal_actions, \* inner.signal_actions.table of the current task
    user_old_set,   \* what the last sys_sigprocmask stored through old_set, if anything
    sig_last,       \* history: the last step of the signal subsystem
    \* ---- PCB inner: fd table (fs.rs)
    fd_table,       \* inner.fd_table: Vec<Option<Arc<dyn File>>>
    fd_last,        \* history: the last step of the fd subsystem
    pipes,          \* the pipes made so far: ring buffer, bytes written, bytes read
    \* ---- FAT32 volume (fs/fat32/file_system.rs, fs/fat32/inode.rs)
    fat,            \* the FAT: cluster id -> entry (0 free, EOC, or the next cluster id)
    data,           \* the data clusters of files: cluster id -> CLUSTER_SIZE bytes
    dir,            \* the root directory's cluster: its 32-byte slots, in order
    fs_last,        \* history: the last operation on the volume
    \* ---- scheduler (task/task.rs)
    ready_queue,    \* the ready queue of TCBs, in FIFO order
    run_count,      \* history: how many times each task was selected to run
    sched_last,     \* history: the last sys_set_priority or sys_clone call
    cur_task,       \* the thread the hart runs
    sys_pc,         \* by thread: the syscall it is in and the statement it is at
    held,           \* by thread: the RefMut guards and locks it holds
    clock,          \* timer::get_time(), in ticks
    sleep,          \* the sys_sleep call of the task: where it is, its end_time, whether
                    \* it has suspended, its result
    \* ---- exec (process.rs:217-276)
    memory_set,     \* the address space of the caller: the ELF it was built from
    trap_entry,     \* trap context entry point of the caller
    cur_pid,        \* the pid of the caller's PCB
    exec_last,      \* history: the last sys_execve call
    \* ---- the kernel as a whole
    panicked        \* a handler hit unwrap() on None / panic!, or never returns: the kernel halted

memVars  == <<heap_base, heap_end, heap_mapped, brk_last>>
procVars == <<children, is_zombie, exit_code, wait_pc, wait_args, user_exit_code, wait_last>>
sigVars  == <<signal_mask, signals, signal_actions, user_old_set, sig_last>>
fdVars   == <<fd_table, fd_last, pipes>>
fsVars   == <<fat, data, dir, fs_last>>
schedVars == <<ready_queue, run_count, sched_last, cur_task, sys_pc, held, clock, sleep>>
execVars == <<memory_set, trap_entry, cur_pid, exec_last>>
vars     == <<memVars, procVars, sigVars, fdVars, fsVars, schedVars, execVars, panicked>>

\* Option<T>
NoneV == [some |-> FALSE, val |-> 0]
Some(v) == [some |-> TRUE, val |-> v]

\* the set bits of a machine word, as bit positions
Bits(n) == { i \in 0 .. 30 : (n \div (2 ^ i)) % 2 = 1 }

\* bitflags contains(): every bit of flag is set in word
contains(word, flag) == Bits(flag) \subseteq Bits(word)

\* the elements of a Vec
Range(s) == { s[i] : i \in 1 .. Len(s) }

(***************************************************************************)
(* errno values (syscall::errno), returned as negative isize.              *)
(***************************************************************************)
SUCCESS == 0
EPERM   == -1
ESRCH   == -3
ECHILD  == -10
EINVAL  == -22
ENOENT  == -2

(***************************************************************************)
(*                               sys_brk                                   *)
(***************************************************************************)
PAGE_SIZE == 4096

\* bounds of the heap model
MaxHeapPages == 3
\* the initial heap: heap_end == heap_base, page aligned
HeapBase == 4 * PAGE_SIZE

\* ((a) + PAGE_SIZE - 1) & (!(PAGE_SIZE - 1)), PAGE_SIZE a power of two
AlignUp(a) == ((a + PAGE_SIZE - 1) \div PAGE_SIZE) * PAGE_SIZE

\* memory_set.map_heap(start, end): a framed area over the pages of [start, end)
map_heap(mapped, start, end) ==
    mapped \cup { p \in (start \div PAGE_SIZE) .. ((AlignUp(end) \div PAGE_SIZE) - 1) : TRUE }

\* a mutant of sys_brk: an address below heap_base is not refused
sys_brk_below_base(base, end, mapped, addr) ==
    LET align_addr == AlignUp(addr)
        align_end  == AlignUp(end)
    IN  IF addr = 0 THEN [ret |-> end, heap_end |-> end, heap_mapped |-> mapped]
        ELSE IF align_end >= addr
             THEN [ret |-> align_addr, heap_end |-> addr, heap_mapped |-> mapped]
             ELSE [ret |-> addr, heap_end |-> align_addr,
                   heap_mapped |-> map_heap(mapped, end, align_addr)]

\* sys_brk(addr) on a PCB with heap_base = base, heap_end = end: the value
\* returned and the fields after the call
sys_brk(base, end, mapped, addr) ==
    LET align_addr == AlignUp(addr)
        align_end  == AlignUp(end)
    IN  IF addr = 0 THEN [ret |-> end, heap_end |-> end, heap_mapped |-> mapped]
        ELSE IF addr < base THEN [ret |-> EINVAL, heap_end |-> end, heap_mapped |-> mapped]
        ELSE IF align_end >= addr
             THEN [ret |-> align_addr, heap_end |-> addr, heap_mapped |-> mapped]
             ELSE [ret |-> addr, heap_end |-> align_addr,
                   heap_mapped |-> map_heap(mapped, end, align_addr)]

\* the addresses user programs pass to brk
BrkAddrs ==
    {0, HeapBase - 1}
    \cup { HeapBase + k * PAGE_SIZE + d : k \in 0 .. MaxHeapPages, d \in {0, 1, PAGE_SIZE - 1} }

InitMem ==
    /\ heap_base = HeapBase
    /\ heap_end = HeapBase
    /\ heap_mapped = {}
    /\ brk_last = [addr |-> 0, ret |-> HeapBase]

Brk(addr) ==
    /\ ~panicked
    /\ LET r == sys_brk(heap_base, heap_end, heap_mapped, addr)
       IN  /\ heap_end' = r.heap_end
           /\ heap_mapped' = r.heap_mapped
           /\ brk_last' = [addr |-> addr, ret |-> r.ret]
    /\ UNCHANGED <<heap_base, procVars, sigVars, fdVars, fsVars, schedVars, execVars, panicked>>


(***************************************************************************)
(*                 sys_kill / sys_sigprocmask / sys_sigaction              *)
(***************************************************************************)
\* signal numbers; SignalFlags holds signal n as bit n - 1 (signal.rs:114)
SIGINT  == 2
SIGKILL == 9
SIGUSR1 == 10
SIGSTOP == 19
MAX_SIG == 31
SigBit(n) == n - 1
\* the bits SignalFlags defines: one per signal 1 .. MAX_SIG
SignalFlagBits == 0 .. (MAX_SIG - 1)

\* sigprocmask's how
SIG_BLOCK   == 0
SIG_UNBLOCK == 1
SIG_SETMASK == 2

\* Option<SignalFlags>; a SignalFlags value is the set of its bits
NoFlags == [some |-> FALSE, val |-> {}]
SomeFlags(w) == [some |-> TRUE, val |-> w]

\* SignalFlags::from_bits(word), the word given as the set of its set bits
SignalFlags_from_bits(w) == IF w \subseteq SignalFlagBits THEN SomeFlags(w) ELSE NoFlags

\* the processes pid2process knows, the first of them the caller
CurPid == 1
ProcPids == {1, 2}
\* task::pid2process(pid)
pid2process(pid) == IF pid \in ProcPids THEN Some(pid) ELSE NoneV

\* sys_kill(pid, signal) on the pending sets pend (by pid)
sys_kill(pend, pid, signal) ==
    IF pid2process(pid).some
    THEN LET flag == SignalFlags_from_bits(Bits(signal))
         IN  IF flag.some
             THEN [ret |-> SUCCESS, signals |-> [pend EXCEPT ![pid] = @ \cup flag.val]]
             ELSE [ret |-> EINVAL, signals |-> pend]
    ELSE [ret |-> ESRCH, signals |-> pend]

\* sys_sigprocmask(how, set, old_set, _) on the caller's mask; set and old_set
\* are user pointers: set_null / old_null say they are null, set is the word
\* behind a non-null set
sys_sigprocmask(mask, how, set_null, set, old_null) ==
    LET old_write == IF old_null THEN NoFlags ELSE SomeFlags(mask)
        set_flags == SignalFlags_from_bits(set)
    IN  IF set_null
        THEN [kind |-> "return", ret |-> SUCCESS, signal_mask |-> mask, old_write |-> old_write]
        ELSE IF ~set_flags.some
        THEN \* SignalFlags::from_bits(new_set).unwrap()
             [kind |-> "panic", ret |-> 0, signal_mask |-> mask, old_write |-> old_write]
        ELSE IF how = SIG_BLOCK
        THEN [kind |-> "return", ret |-> SUCCESS, signal_mask |-> mask \cup set_flags.val,
              old_write |-> old_write]
        ELSE IF how = SIG_UNBLOCK
        THEN [kind |-> "return", ret |-> SUCCESS, signal_mask |-> mask \ set_flags.val,
              old_write |-> old_write]
        ELSE IF how = SIG_SETMASK
        THEN [kind |-> "return", ret |-> SUCCESS, signal_mask |-> set_flags.val,
              old_write |-> old_write]
        ELSE [kind |-> "return", ret |-> EPERM, signal_mask |-> mask, old_write |-> old_write]

\* fn check_sigaction_error(signal)
check_sigaction_error(flag) == flag = {SigBit(SIGKILL)} \/ flag = {SigBit(SIGSTOP)}

\* SignalAction values, by sa_handler: the default action and one user handler
DefaultAction == 0
UserAction == 1

\* signal_actions.table[signum]: the table is a Vec of MAX_SIG + 1 actions
Action(table, signum) == table[signum + 1]

\* sys_sigaction(signum, action, old_action) on the caller's table.  With
\* signum = 0, signum - 1 underflows: a build with overflow checks panics, a
\* build without wraps to 1 << 63, a bit SignalFlags does not define.
sys_sigaction(table, signum, act_null, action, old_null, overflow_checks) ==
    IF signum > MAX_SIG
    THEN [kind |-> "return", ret |-> EPERM, table |-> table, old_write |-> NoneV]
    ELSE LET old_write == IF old_null THEN NoneV ELSE Some(Action(table, signum))
             flag == IF signum = 0 THEN NoFlags ELSE SignalFlags_from_bits({SigBit(signum)})
         IN  IF signum = 0 /\ overflow_checks
             THEN [kind |-> "panic", ret |-> 0, table |-> table, old_write |-> old_write]
             ELSE IF ~flag.some
             THEN [kind |-> "return", ret |-> EPERM, table |-> table, old_write |-> old_write]
             ELSE IF check_sigaction_error(flag.val)
             THEN [kind |-> "return", ret |-> EPERM, table |-> table, old_write |-> old_write]
             ELSE [kind |-> "return", ret |-> SUCCESS,
                   table |-> IF act_null THEN table ELSE [table EXCEPT ![signum + 1] = action],
                   old_write |-> old_write]

\* the words user programs pass as *set: signal sets, and one word with a bit
\* SignalFlags does not define
SetWords ==
    { {SigBit(SIGUSR1)}, {SigBit(SIGKILL), SigBit(SIGSTOP)}, {MAX_SIG} }
Hows == {SIG_BLOCK, SIG_UNBLOCK, SIG_SETMASK, 3}
KillSignals == {SIGINT, SIGUSR1}
KillPids == ProcPids \cup {5}
SigactionSignums == {0, SIGKILL, SIGUSR1, SIGSTOP, MAX_SIG + 1}

InitSig ==
    /\ signal_mask = {}
    /\ signals = [p \in ProcPids |-> {}]
    /\ signal_actions = [n \in 1 .. (MAX_SIG + 1) |-> DefaultAction]
    /\ user_old_set = NoFlags
    /\ sig_last = [op |-> "init", kind |-> "return", pid |-> 0, signum |-> 0, how |-> 0,
                   set_null |-> TRUE, set |-> {}, old_null |-> TRUE, ret |-> 0]

Kill(pid, signal) ==
    /\ ~panicked
    /\ LET r == sys_kill(signals, pid, signal)
       IN  /\ signals' = r.signals
           /\ sig_last' = [op |-> "kill", kind |-> "return", pid |-> pid, signum |-> signal,
                           how |-> 0, set_null |-> TRUE, set |-> {}, old_null |-> TRUE,
                           ret |-> r.ret]
    /\ user_old_set' = NoFlags
    /\ UNCHANGED <<signal_mask, signal_actions>>
    /\ UNCHANGED <<memVars, procVars, fdVars, fsVars, schedVars, execVars, panicked>>

Sigprocmask(how, set_null, set, old_null) ==
    /\ ~panicked
    /\ LET r == sys_sigprocmask(signal_mask, how, set_null, set, old_null)
       IN  /\ signal_mask' = r.signal_mask
           /\ user_old_set' = r.old_write
           /\ panicked' = (r.kind = "panic")
           /\ sig_last' = [op |-> "sigprocmask", kind |-> r.kind, pid |-> CurPid, signum |-> 0,
                           how |-> how, set_null |-> set_null, set |-> set,
                           old_null |-> old_null, ret |-> r.ret]
    /\ UNCHANGED <<signals, signal_actions>>
    /\ UNCHANGED <<memVars, procVars, fdVars, fsVars, schedVars, execVars>>

Sigaction(signum, act_null, old_null, overflow_checks) ==
    /\ ~panicked
    /\ LET r == sys_sigaction(signal_actions, signum, act_null, UserAction, old_null,
                              overflow_checks)
       IN  /\ signal_actions' = r.table
           /\ panicked' = (r.kind = "panic")
           /\ sig_last' = [op |-> "sigaction", kind |-> r.kind, pid |-> CurPid,
                           signum |-> signum, how |-> 0, set_null |-> act_null, set |-> {},
                           old_null |-> old_null, ret |-> r.ret]
    /\ user_old_set' = NoFlags
    /\ UNCHANGED <<signal_mask, signals>>
    /\ UNCHANGED <<memVars, procVars, fdVars, fsVars, schedVars, execVars>>

\* trap return of the caller: the lowest pending signal that is not masked is
\* cleared from the pending set and dispatched
HandleSignals ==
    /\ ~panicked
    /\ signals[CurPid] \ signal_mask # {}
    /\ LET ready == signals[CurPid] \ signal_mask
           b == CHOOSE i \in ready : \A j \in ready : i <= j
       IN  /\ signals' = [signals EXCEPT ![CurPid] = @ \ {b}]
           /\ sig_last' = [op |-> "deliver", kind |-> "return", pid |-> CurPid,
                           signum |-> b + 1, how |-> 0, set_null |-> TRUE, set |-> {},
                           old_null |-> TRUE, ret |-> 0]
    /\ user_old_set' = NoFlags
    /\ UNCHANGED <<signal_mask, signal_actions>>
    /\ UNCHANGED <<memVars, procVars, fdVars, fsVars, schedVars, execVars, panicked>>

NextSig ==
    \/ \E pid \in KillPids, signal \in KillSignals : Kill(pid, signal)
    \/ \E how \in Hows, old_null \in BOOLEAN :
          \/ Sigprocmask(how, TRUE, {}, old_null)
          \/ \E set \in SetWords : Sigprocmask(how, FALSE, set, old_null)
    \/ \E signum \in SigactionSignums, act_null \in BOOLEAN, old_null \in BOOLEAN :
          \E overflow_checks \in (IF signum = 0 THEN BOOLEAN ELSE {FALSE}) :
             Sigaction(signum, act_null, old_null, overflow_checks)
    \/ HandleSignals

(***************************************************************************)
(*                      sys_clone / sys_exit / sys_wait4                   *)
(***************************************************************************)
\* bounds of the process model: child pids are 2 .. MaxPid
MaxPid == 3
ChildPids == 2 .. MaxPid
ExitCodes == {0, 42}

\* bitflags! WaitOption (process.rs:90-98), as bit positions
WNOHANG == 1
WaitOptionBits == {0, 1, 2, 3, 24}
\* the option words user programs pass: 0, WNOHANG, WNOHANG|WUNTRACED, and 16,
\* a bit no WaitOption flag defines
WaitOptions == {0, 1, 3, 16}

\* WaitOption::from_bits(option)
WaitOption_from_bits(option) ==
    IF Bits(option) \subseteq WaitOptionBits THEN Some(option) ELSE NoneV

\* pid == -1 || pid as usize == p.pid.0
MatchesPid(pid, p) == pid = -1 \/ pid = p

\* children with the element at index idx removed (Vec::remove)
RemoveAt(s, idx) == SubSeq(s, 1, idx - 1) \o SubSeq(s, idx + 1, Len(s))

\* mutants of the loop body of sys_wait4
wait4_loop_any_child(ch, zomb, code, pid, ptr_null, option) ==
    LET matching == { i \in 1 .. Len(ch) : MatchesPid(pid, ch[i]) }
        idx == CHOOSE i \in matching : \A j \in matching : i <= j
    IN  IF matching = {}
        THEN [kind |-> "return", ret |-> ECHILD, children |-> ch, write |-> NoneV]
        ELSE [kind |-> "return", ret |-> ch[idx], children |-> RemoveAt(ch, idx),
              write |-> IF ptr_null THEN NoneV ELSE Some(code[ch[idx]].val)]

wait4_loop_keeps_child(ch, zomb, code, pid, ptr_null, option) ==
    LET matching == { i \in 1 .. Len(ch) : MatchesPid(pid, ch[i]) }
        ready == { i \in matching : zomb[ch[i]] }
        idx == CHOOSE i \in ready : \A j \in ready : i <= j
    IN  IF matching = {}
        THEN [kind |-> "return", ret |-> ECHILD, children |-> ch, write |-> NoneV]
        ELSE IF ready # {}
        THEN [kind |-> "return", ret |-> ch[idx], children |-> ch,
              write |-> IF ptr_null THEN NoneV ELSE Some(code[ch[idx]].val)]
        ELSE IF contains(option, WNOHANG)
        THEN [kind |-> "return", ret |-> 0, children |-> ch, write |-> NoneV]
        ELSE [kind |-> "suspend", ret |-> 0, children |-> ch, write |-> NoneV]

wait4_loop_no_wnohang(ch, zomb, code, pid, ptr_null, option) ==
    LET matching == { i \in 1 .. Len(ch) : MatchesPid(pid, ch[i]) }
        ready == { i \in matching : zomb[ch[i]] }
        idx == CHOOSE i \in ready : \A j \in ready : i <= j
    IN  IF matching = {}
        THEN [kind |-> "return", ret |-> ECHILD, children |-> ch, write |-> NoneV]
        ELSE IF ready # {}
        THEN [kind |-> "return", ret |-> ch[idx], children |-> RemoveAt(ch, idx),
              write |-> IF ptr_null THEN NoneV ELSE Some(code[ch[idx]].val)]
        ELSE [kind |-> "suspend", ret |-> 0, children |-> ch, write |-> NoneV]

\* one pass of the loop of sys_wait4 (process.rs:285-334) over the children
\* list ch: kind is "return" (with ret), "suspend" (the call reached
\* suspend_current_and_run_next) or "panic" (exit_code.unwrap() on None);
\* write is the value stored through exit_code_ptr, if any
wait4_loop(ch, zomb, code, pid, ptr_null, option) ==
    LET matching == { i \in 1 .. Len(ch) : MatchesPid(pid, ch[i]) }
        ready == { i \in matching : zomb[ch[i]] }
        \* iter().enumerate().find(..): the first zombie that matches
        idx == CHOOSE i \in ready : \A j \in ready : i <= j
    IN  IF matching = {}
        THEN [kind |-> "return", ret |-> ECHILD, children |-> ch, write |-> NoneV]
        ELSE IF ready # {}
        THEN IF ~code[ch[idx]].some
             THEN [kind |-> "panic", ret |-> 0, children |-> RemoveAt(ch, idx), write |-> NoneV]
             ELSE [kind |-> "return", ret |-> ch[idx], children |-> RemoveAt(ch, idx),
                   write |-> IF ptr_null THEN NoneV ELSE Some(code[ch[idx]].val)]
        ELSE IF contains(option, WNOHANG)
        THEN [kind |-> "return", ret |-> 0, children |-> ch, write |-> NoneV]
        ELSE [kind |-> "suspend", ret |-> 0, children |-> ch, write |-> NoneV]

InitProc ==
    /\ children = <<>>
    /\ is_zombie = [p \in ChildPids |-> FALSE]
    /\ exit_code = [p \in ChildPids |-> NoneV]
    /\ wait_pc = "user"
    /\ wait_args = [pid |-> 0, ptr_null |-> TRUE, option |-> 0]
    /\ user_exit_code = NoneV
    /\ wait_last = [op |-> "init", kind |-> "return", resumed |-> FALSE, pid |-> 0,
                    ptr_null |-> TRUE, option |-> 0, ret |-> 0]

\* the effect of a pass of the loop on the caller and its children
Wait4Pass(pid, ptr_null, option, resumed) ==
    LET r == wait4_loop(children, is_zombie, exit_code, pid, ptr_null, option)
        reaped == Range(children) \ Range(r.children)
    IN  /\ children' = r.children
        \* the removed child's PCB is dropped with its last Arc
        /\ is_zombie' = [p \in ChildPids |-> IF p \in reaped THEN FALSE ELSE is_zombie[p]]
        /\ exit_code' = [p \in ChildPids |-> IF p \in reaped THEN NoneV ELSE exit_code[p]]
        /\ user_exit_code' = r.write
        /\ panicked' = (r.kind = "panic")
        /\ wait_pc' = IF r.kind = "suspend" THEN "suspended" ELSE "user"
        \* the arguments live in the suspended call's kernel stack frame
        /\ wait_args' = IF r.kind = "suspend"
                         THEN [pid |-> pid, ptr_null |-> ptr_null, option |-> option]
                         ELSE [pid |-> 0, ptr_null |-> TRUE, option |-> 0]
        /\ wait_last' = [op |-> "wait4", kind |-> r.kind, resumed |-> resumed, pid |-> pid,
                         ptr_null |-> ptr_null, option |-> option, ret |-> r.ret]

\* sys_wait4(pid, exit_code_ptr, option, _): entry and the first pass of the loop
Wait4Call(pid, ptr_null, option) ==
    /\ ~panicked
    /\ wait_pc = "user"
    /\ IF ~WaitOption_from_bits(option).some
       THEN \* WaitOption::from_bits(option).unwrap() panics
            /\ panicked' = TRUE
            /\ wait_last' = [op |-> "wait4", kind |-> "panic", resumed |-> FALSE, pid |-> pid,
                             ptr_null |-> ptr_null, option |-> option, ret |-> 0]
            /\ user_exit_code' = NoneV
            /\ UNCHANGED <<children, is_zombie, exit_code, wait_pc, wait_args>>
       ELSE Wait4Pass(pid, ptr_null, option, FALSE)
    /\ UNCHANGED <<memVars, sigVars, fdVars, fsVars, schedVars, execVars>>

\* the scheduler switches back to the caller suspended in sys_wait4: next pass
Wait4Resume ==
    /\ ~panicked
    /\ wait_pc = "suspended"
    /\ Wait4Pass(wait_args.pid, wait_args.ptr_null, wait_args.option, TRUE)
    /\ UNCHANGED <<memVars, sigVars, fdVars, fsVars, schedVars, execVars>>

\* sys_clone(SIGCHLD, ..) without CLONE_THREAD: current_task.fork() pushes the
\* new PCB to inner.children and returns its pid
CloneFork(p) ==
    /\ ~panicked
    /\ wait_pc = "user"
    /\ p \notin Range(children)
    /\ children' = Append(children, p)
    /\ wait_last' = [op |-> "clone", kind |-> "return", resumed |-> FALSE, pid |-> p,
                     ptr_null |-> TRUE, option |-> 0, ret |-> p]
    /\ UNCHANGED <<is_zombie, exit_code, wait_pc, wait_args, user_exit_code>>
    /\ UNCHANGED <<memVars, sigVars, fdVars, fsVars, schedVars, execVars, panicked>>

\* a child runs sys_exit(code): exit_current_and_run_next marks it a zombie
ChildExit(p, code) ==
    /\ ~panicked
    /\ p \in Range(children)
    /\ ~is_zombie[p]
    /\ is_zombie' = [is_zombie EXCEPT ![p] = TRUE]
    /\ exit_code' = [exit_code EXCEPT ![p] = Some(code)]
    /\ wait_last' = [op |-> "exit", kind |-> "return", resumed |-> FALSE, pid |-> p,
                     ptr_null |-> TRUE, option |-> 0, ret |-> 0]
    /\ UNCHANGED <<children, wait_pc, wait_args, user_exit_code>>
    /\ UNCHANGED <<memVars, sigVars, fdVars, fsVars, schedVars, execVars, panicked>>

NextWait ==
    \/ \E p \in ChildPids : CloneFork(p)
    \/ \E p \in ChildPids, code \in ExitCodes : ChildExit(p, code)
    \/ \E pid \in {-1} \cup ChildPids, ptr_null \in BOOLEAN, option \in WaitOptions :
          Wait4Call(pid, ptr_null, option)
    \/ Wait4Resume

(***************************************************************************)
(*                     the fd table: sys_dup, sys_close                    *)
(***************************************************************************)
\* bound of the fd model: the table holds at most MaxFds slots
MaxFds == 4
\* file objects (the Arc<dyn File> a slot holds); a slot holding None is NoFile
NoFile == 0
Stdin  == 1
Stdout == 2
Stderr == 3

\* the slot of fd in the Vec (fds count from 0)
Slot(tab, fd) == tab[fd + 1]
SetSlot(tab, fd, f) == [tab EXCEPT ![fd + 1] = f]

\* ProcessControlBlockInner::alloc_fd: the lowest empty slot, or a new slot
\* pushed at the end of the table
alloc_fd(tab) ==
    LET empty == { fd \in 0 .. (Len(tab) - 1) : Slot(tab, fd) = NoFile }
    IN  IF empty # {}
        THEN [fd |-> CHOOSE fd \in empty : \A g \in empty : fd <= g, fd_table |-> tab]
        ELSE [fd |-> Len(tab), fd_table |-> Append(tab, NoFile)]

\* a mutant of sys_dup: the new slot gets another file object than fd's
sys_dup_other_file(tab, fd) ==
    IF fd >= Len(tab) THEN [ret |-> -1, fd_table |-> tab]
    ELSE IF Slot(tab, fd) = NoFile THEN [ret |-> -1, fd_table |-> tab]
    ELSE LET a == alloc_fd(tab)
         IN  [ret |-> a.fd,
              fd_table |-> SetSlot(a.fd_table, a.fd, (Slot(tab, fd) % 3) + 1)]

\* sys_dup(fd)
sys_dup(tab, fd) ==
    IF fd >= Len(tab) THEN [ret |-> -1, fd_table |-> tab]
    ELSE IF Slot(tab, fd) = NoFile THEN [ret |-> -1, fd_table |-> tab]
    ELSE LET a == alloc_fd(tab)
         IN  [ret |-> a.fd, fd_table |-> SetSlot(a.fd_table, a.fd, Slot(tab, fd))]

\* a mutant of sys_close: the file object is closed, so every slot that
\* shares it is emptied
sys_close_aliases(tab, fd) ==
    IF fd >= Len(tab) THEN [ret |-> -1, fd_table |-> tab]
    ELSE IF Slot(tab, fd) = NoFile THEN [ret |-> -1, fd_table |-> tab]
    ELSE [ret |-> 0,
          fd_table |-> [i \in 1 .. Len(tab) |->
                           IF tab[i] = Slot(tab, fd) THEN NoFile ELSE tab[i]]]

\* sys_close(fd)
sys_close(tab, fd) ==
    IF fd >= Len(tab) THEN [ret |-> -1, fd_table |-> tab]
    ELSE IF Slot(tab, fd) = NoFile THEN [ret |-> -1, fd_table |-> tab]
    ELSE [ret |-> 0, fd_table |-> SetSlot(tab, fd, NoFile)]

\* usize::MAX (what a new_fd of -1 is as usize), and the length from which a
\* Vec of 16-byte slots cannot grow (isize::MAX bytes); both scaled to 31 bits
UsizeMax == 2147483647
VecLimit == 134217728

\* sys_dup3(fd, new_fd).  The pushes that lengthen the table up to new_fd
\* panic in the allocator when the table would pass VecLimit slots.
sys_dup3(tab, fd, new_fd) ==
    LET grown == IF Len(tab) <= new_fd
                 THEN tab \o [i \in 1 .. (new_fd + 1 - Len(tab)) |-> NoFile]
                 ELSE tab
    IN  IF fd >= Len(tab) THEN [kind |-> "return", ret |-> -1, fd_table |-> tab]
        ELSE IF Slot(tab, fd) = NoFile THEN [kind |-> "return", ret |-> -1, fd_table |-> tab]
        ELSE IF new_fd >= VecLimit THEN [kind |-> "panic", ret |-> 0, fd_table |-> tab]
        ELSE IF Slot(grown, new_fd) # NoFile
        THEN [kind |-> "return", ret |-> -1, fd_table |-> grown]
        ELSE [kind |-> "return", ret |-> new_fd,
              fd_table |-> SetSlot(grown, new_fd, Slot(tab, fd))]

InitFd ==
    /\ fd_table = <<Stdin, Stdout, Stderr>>
    /\ fd_last = [op |-> "init", fd |-> 0, flags |-> {}, data |-> <<>>, ret |-> 0]
    /\ pipes = <<>>

Dup(fd) ==
    /\ ~panicked
    /\ Len(alloc_fd(fd_table).fd_table) <= MaxFds
    /\ LET r == sys_dup(fd_table, fd)
       IN  /\ fd_table' = r.fd_table
           /\ fd_last' = [op |-> "dup", fd |-> fd, flags |-> {}, data |-> <<>>, ret |-> r.ret]
    /\ UNCHANGED pipes
    /\ UNCHANGED <<memVars, procVars, sigVars, fsVars, schedVars, execVars, panicked>>

Close(fd) ==
    /\ ~panicked
    /\ LET r == sys_close(fd_table, fd)
       IN  /\ fd_table' = r.fd_table
           /\ fd_last' = [op |-> "close", fd |-> fd, flags |-> {}, data |-> <<>>, ret |-> r.ret]
    /\ UNCHANGED pipes
    /\ UNCHANGED <<memVars, procVars, sigVars, fsVars, schedVars, execVars, panicked>>

Dup3(fd, new_fd) ==
    /\ ~panicked
    /\ new_fd < MaxFds \/ new_fd = UsizeMax
    /\ LET r == sys_dup3(fd_table, fd, new_fd)
       IN  /\ fd_table' = r.fd_table
           /\ panicked' = (r.kind = "panic")
           /\ fd_last' = [op |-> "dup3", fd |-> fd, flags |-> {}, data |-> <<new_fd>>,
                          ret |-> r.ret]
    /\ UNCHANGED pipes
    /\ UNCHANGED <<memVars, procVars, sigVars, fsVars, schedVars, execVars>>

\* dup, dup3 and close; new_fd also the usize of -1
NextDup3 ==
    \/ \E fd \in 0 .. MaxFds : Dup(fd)
    \/ \E fd \in 0 .. MaxFds, new_fd \in (0 .. MaxFds) \cup {UsizeMax} : Dup3(fd, new_fd)
    \/ \E fd \in 0 .. MaxFds : Close(fd)

NextFd ==
    \/ \E fd \in 0 .. MaxFds : Dup(fd)
    \/ \E fd \in 0 .. MaxFds : Close(fd)

(***************************************************************************)
(*        FAT32 volume: the FAT, directory entries, cluster chains         *)
(***************************************************************************)
\* bounds of the volume model: bytes per cluster (the source's CLUSTER_SIZE,
\* scaled down), 32-byte slots per directory sector, highest cluster id
CLUSTER_SIZE == 2
DirSlots == 4
MaxCluster == 6

\* FAT entries: 0 is a free cluster, EOC (0x0FFFFFF8) the end-of-chain mark
FreeEntry == 0
EOC == 268435448
\* the root directory's cluster (sb.root_cluster) and the clusters of files
RootCluster == 2
Clusters == RootCluster .. MaxCluster
DataClusters == (RootCluster + 1) .. MaxCluster

\* min(a, b)
min(a, b) == IF a <= b THEN a ELSE b

\* fat.next_cluster_id(c): None when the entry is the end-of-chain mark or 0
next_cluster_id(f, c) ==
    IF f[c] >= EOC \/ f[c] = FreeEntry THEN NoneV ELSE Some(f[c])

\* fat.alloc_new_cluster(bdev): the first free entry becomes an end of chain
alloc_new_cluster(f) ==
    LET free == { c \in DOMAIN f : f[c] = FreeEntry }
    IN  IF free = {}
        THEN [some |-> FALSE, val |-> 0, fat |-> f]
        ELSE LET c == CHOOSE x \in free : \A y \in free : x <= y
             IN  [some |-> TRUE, val |-> c, fat |-> [f EXCEPT ![c] = EOC]]

\* a mutant of cluster_chain: the cluster is pushed again after the lookup
cluster_chain_repush(f, start_cluster) ==
    LET RECURSIVE loop(_, _, _)
        loop(cluster, chain, fuel) ==
            LET pushed == Append(Append(chain, cluster), cluster)
                next_cluster == next_cluster_id(f, cluster)
            IN  IF ~next_cluster.some THEN [done |-> TRUE, chain |-> pushed]
                ELSE IF fuel = 0 THEN [done |-> FALSE, chain |-> pushed]
                ELSE loop(next_cluster.val, pushed, fuel - 1)
    IN  loop(start_cluster, <<>>, Cardinality(DOMAIN f))

\* the loop of cluster_chain; it has no exit but the end of the chain, so a
\* walk longer than the number of clusters never ends (done is FALSE)
RECURSIVE chain_loop(_, _, _, _)
chain_loop(f, cluster, chain, fuel) ==
    LET pushed == Append(chain, cluster)
        next_cluster == next_cluster_id(f, cluster)
    IN  IF ~next_cluster.some THEN [done |-> TRUE, chain |-> pushed]
        ELSE IF fuel = 0 THEN [done |-> FALSE, chain |-> pushed]
        ELSE chain_loop(f, next_cluster.val, pushed, fuel - 1)

\* Fat32FS::cluster_chain(start_cluster)
cluster_chain(f, start_cluster) ==
    chain_loop(f, start_cluster, <<>>, Cardinality(DOMAIN f))

\* ---- directory entries ----
\* names are sequences of characters; a long entry holds LongChunk of them
LongChunk == 13
\* a 32-byte slot of a directory: empty (first byte 0x00), deleted (first
\* byte 0xE5), a long entry (its order number, a chunk of the name, is_end:
\* the last-chunk bit of the order byte)
\* or a short entry (name, start cluster, size)
EmptySlot ==
    [kind |-> "empty", order |-> 0, name |-> <<>>, is_end |-> FALSE, start |-> 0, size |-> 0]
LongSlot(order, chunk, is_end) ==
    [kind |-> "long", order |-> order, name |-> chunk, is_end |-> is_end, start |-> 0,
     size |-> 0]
ShortSlot(name, start, size) ==
    [kind |-> "short", order |-> 0, name |-> name, is_end |-> FALSE, start |-> start,
     size |-> size]
\* layout.set_deleted() / layout.order = 0xE5: only the first byte changes.
\* In a long entry that byte is the order byte, and 0xE5 has the last-chunk
\* bit set
Deleted(slot) ==
    IF slot.kind = "long"
    THEN [slot EXCEPT !.kind = "deleted", !.order = 229, !.is_end = TRUE]
    ELSE [slot EXCEPT !.kind = "deleted"]

\* the slot at cursor pos (offset / 32) of the directory sector
SlotAt(d, pos) == d[pos + 1]

\* the size of a directory entry, and of a sector (DirSlots entries)
DentrySize == 32
SectorSize == DirSlots * DentrySize

\* Fat32FS::next_dentry_id(sector_id, offset) on a volume with the FAT f and
\* sb.sectors_per_cluster sectors in a cluster: Some((sector, offset)) or None
next_dentry_id(f, sectors_per_cluster, sector_id, offset) ==
    LET none == [some |-> FALSE, val |-> <<0, 0>>]
        next_offset == offset + DentrySize
        next_sector_id == sector_id + 1
    IN  IF offset >= SectorSize \/ offset % DentrySize # 0 THEN none
        ELSE IF next_offset >= SectorSize
        THEN IF next_sector_id % sectors_per_cluster = 0
             THEN \* the sector id is handed to the FAT as a cluster id, and the
                  \* cluster id it answers is handed back as a sector id
                  LET n == next_cluster_id(f, sector_id)
                  IN  IF n.some THEN [some |-> TRUE, val |-> <<n.val, 0>>] ELSE none
             ELSE [some |-> TRUE, val |-> <<next_sector_id, 0>>]
        ELSE [some |-> TRUE, val |-> <<sector_id, next_offset>>]

\* next_dentry_id in slots of the root directory's sector.  On the volumes of
\* the directory model a cluster is one sector and cluster 2 is sector 2, and
\* the root directory's FAT entry is the end-of-chain mark in every state
\* (sector ids and cluster ids coincide), so past the last slot
\* fat.next_cluster_id(..) is None
next_slot(pos) ==
    IF pos >= DirSlots THEN NoneV
    ELSE IF pos + 1 >= DirSlots THEN NoneV
    ELSE Some(pos + 1)

\* the dentry Fat32Dentry::new(sector_id, offset, ..) stands for: the entry
\* set that starts at pos, with the name, start cluster and size its short
\* entry holds
RECURSIVE ShortOf(_, _)
ShortOf(d, pos) ==
    IF pos + 1 >= Len(d) \/ SlotAt(d, pos).kind # "long" THEN pos ELSE ShortOf(d, pos + 1)
DentryAt(d, pos) ==
    LET s == SlotAt(d, ShortOf(d, pos))
    IN  [deleted |-> FALSE, name |-> IF s.kind = "short" THEN s.name ELSE <<>>,
         start_cluster |-> s.start, file_size |-> s.size]
\* Fat32Dentry::new_deleted(..)
new_deleted == [deleted |-> TRUE, name |-> <<>>, start_cluster |-> 0, file_size |-> 0]

\* the loop of get_dentry over a long-entry sequence: the cursor moves until
\* the entry read had is_end set; unwrap() of next_dentry_id panics on None
RECURSIVE skip_long(_, _)
skip_long(d, pos) ==
    LET is_end == SlotAt(d, pos).is_end
        next == next_slot(pos)
    IN  IF ~next.some THEN [panic |-> TRUE, pos |-> pos]
        ELSE IF is_end THEN [panic |-> FALSE, pos |-> next.val]
        ELSE skip_long(d, next.val)

\* Fat32FS::get_dentry(&mut sector_id, &mut offset): kind is "some", "none"
\* or "panic"; pos is the cursor after the call
get_dentry(d, pos) ==
    IF pos >= DirSlots THEN [kind |-> "none", dentry |-> new_deleted, pos |-> pos]
    ELSE LET layout == SlotAt(d, pos)
             dentry == IF layout.kind = "deleted" THEN new_deleted ELSE DentryAt(d, pos)
             is_long_entry == layout.kind = "long"
             skipped == IF is_long_entry THEN skip_long(d, pos)
                        ELSE [panic |-> FALSE, pos |-> pos]
             next == next_slot(skipped.pos)
         IN  IF skipped.panic \/ ~next.some
             THEN [kind |-> "panic", dentry |-> dentry, pos |-> skipped.pos]
             ELSE [kind |-> "some", dentry |-> dentry, pos |-> next.val]

\* Fat32Inode { start_cluster, fize_size, .. }
Inode(start_cluster, fize_size) == [start_cluster |-> start_cluster, fize_size |-> fize_size]
RootInode == Inode(RootCluster, 0)
Dot == <<".">>

\* the loop of find / unlink over the directory, from cursor pos: the first
\* dentry named name ("found": it starts at slot at, and pos is the cursor
\* after get_dentry returned it), the end of the iteration ("none") or a
\* panic inside get_dentry
RECURSIVE lookup(_, _, _)
lookup(d, name, pos) ==
    LET g == get_dentry(d, pos)
    IN  IF g.kind = "panic"
        THEN [kind |-> "panic", dentry |-> new_deleted, at |-> pos, pos |-> pos]
        ELSE IF g.kind = "none"
        THEN [kind |-> "none", dentry |-> new_deleted, at |-> pos, pos |-> pos]
        ELSE IF g.dentry.name = name
        THEN [kind |-> "found", dentry |-> g.dentry, at |-> pos, pos |-> g.pos]
        ELSE lookup(d, name, g.pos)

\* Fat32Inode::find(path) on the root directory, path a single component:
\* kind is "some" (with the inode), "none" or "panic"
find(d, name) ==
    IF name = Dot THEN [kind |-> "some", inode |-> RootInode]
    ELSE LET l == lookup(d, name, 0)
         IN  IF l.kind = "found"
             THEN [kind |-> "some", inode |-> Inode(l.dentry.start_cluster, l.dentry.file_size)]
             ELSE [kind |-> l.kind, inode |-> Inode(0, 0)]


\* ---- read_at / write_at ----
\* fs.read_cluster(cluster_id, &mut cluster_buf) / fs.write_cluster(..)
read_cluster(dat, cluster) == dat[cluster]
write_cluster(dat, cluster, buf) == [dat EXCEPT ![cluster] = buf]

\* cluster_buf[from .. from + n].copy_from_slice(src)
CopyInto(cluster_buf, from, src) ==
    [i \in 1 .. Len(cluster_buf) |->
        IF i > from /\ i <= from + Len(src) THEN src[i - from] ELSE cluster_buf[i]]

\* the loop of read_at over the chain, from its i-th cluster, with pos bytes
\* passed and out the bytes copied to buf so far.  fize_size - pos is a usize
\* subtraction: when pos is past the size a build with overflow checks
\* panics, a build without wraps to a huge value and min() picks the other
\* operand.  A slice that runs past the end of cluster_buf panics.
RECURSIVE read_loop(_, _, _, _, _, _, _, _)
read_loop(dat, chain, i, fize_size, offset, len, st, overflow_checks) ==
    IF i > Len(chain) THEN [kind |-> "return", out |-> st.out]
    ELSE LET skip == st.pos < offset
             pass_size == min(CLUSTER_SIZE, offset - st.pos)
             pos == IF skip THEN st.pos + pass_size ELSE st.pos
         IN  IF skip /\ pass_size = CLUSTER_SIZE
             THEN read_loop(dat, chain, i + 1, fize_size, offset, len,
                            [pos |-> pos, out |-> st.out], overflow_checks)
             ELSE LET cluster_buf == read_cluster(dat, chain[i])
                      read_size == Len(st.out)
                      underflow == fize_size < pos
                      copy_size == IF underflow THEN len - read_size
                                   ELSE min(fize_size - pos, len - read_size)
                      from == pos % CLUSTER_SIZE
                      out == st.out \o SubSeq(cluster_buf, from + 1, from + copy_size)
                  IN  IF underflow /\ overflow_checks THEN [kind |-> "panic", out |-> st.out]
                      ELSE IF from + copy_size > CLUSTER_SIZE THEN [kind |-> "panic", out |-> st.out]
                      ELSE IF Len(out) >= len \/ pos + copy_size >= fize_size
                           THEN [kind |-> "return", out |-> out]
                           ELSE read_loop(dat, chain, i + 1, fize_size, offset, len,
                                          [pos |-> pos + copy_size, out |-> out],
                                          overflow_checks)

\* Fat32Inode::read_at(offset, buf) with buf.len() = len: the bytes copied to
\* buf (read_size of them), or a panic
read_at(f, dat, inode, offset, len, overflow_checks) ==
    LET c == cluster_chain(f, inode.start_cluster)
    IN  read_loop(dat, c.chain, 1, inode.fize_size, offset, len,
                  [pos |-> 0, out |-> <<>>], overflow_checks)

\* the loop of write_at over the chain, from its i-th cluster, with pos bytes
\* passed and write_size bytes of buf written so far
RECURSIVE write_loop(_, _, _, _, _, _)
write_loop(dat, chain, i, offset, buf, st) ==
    IF i > Len(chain) THEN [ret |-> st.write_size, data |-> dat]
    ELSE LET skip == st.pos < offset
             pass_size == min(CLUSTER_SIZE, offset - st.pos)
             pos == IF skip THEN st.pos + pass_size ELSE st.pos
         IN  IF skip /\ pass_size = CLUSTER_SIZE
             THEN write_loop(dat, chain, i + 1, offset, buf,
                             [pos |-> pos, write_size |-> st.write_size])
             ELSE LET cluster_buf == read_cluster(dat, chain[i])
                      copy_size == min(Len(buf) - st.write_size,
                                       CLUSTER_SIZE - (pos % CLUSTER_SIZE))
                      src == SubSeq(buf, st.write_size + 1, st.write_size + copy_size)
                      written == write_cluster(dat, chain[i],
                                               CopyInto(cluster_buf, pos % CLUSTER_SIZE, src))
                      write_size == st.write_size + copy_size
                  IN  IF write_size >= Len(buf) THEN [ret |-> write_size, data |-> written]
                      ELSE write_loop(written, chain, i + 1, offset, buf,
                                      [pos |-> pos + copy_size, write_size |-> write_size])

\* Fat32Inode::write_at(offset, buf): write_size and the clusters afterwards.
\* Neither the FAT nor the directory entry of the file is touched.
write_at(f, dat, inode, offset, buf) ==
    LET c == cluster_chain(f, inode.start_cluster)
    IN  write_loop(dat, c.chain, 1, offset, buf, [pos |-> 0, write_size |-> 0])


\* ---- insert_dentry / remove_dentry / create / unlink / ls ----
\* the second loop of insert_dentry: one long entry per chunk of the name,
\* from character pos of the name and cursor cur
RECURSIVE insert_long(_, _, _, _)
insert_long(d, name, pos, cur) ==
    IF pos >= Len(name) THEN [panic |-> FALSE, dir |-> d, cur |-> cur]
    ELSE LET copy_len == min(LongChunk, Len(name) - pos)
             written == [d EXCEPT ![cur + 1] =
                            LongSlot((pos \div LongChunk) + 1,
                                     SubSeq(name, pos + 1, pos + copy_len),
                                     pos + copy_len = Len(name))]
             next == next_slot(cur)
         IN  IF ~next.some THEN [panic |-> TRUE, dir |-> written, cur |-> cur]
             ELSE insert_long(written, name, pos + copy_len, next.val)

\* Fat32FS::insert_dentry(cluster_id, name, attr, file_size, start_cluster)
\* on the root directory.  The first loop reads the slot at offset 0 until
\* it is empty and never moves the cursor: on a directory whose first slot
\* is in use it does not end ("hang").
insert_dentry(d, name, file_size, start_cluster) ==
    IF SlotAt(d, 0).kind # "empty" THEN [kind |-> "hang", dir |-> d]
    ELSE LET l == insert_long(d, name, 0, 0)
         IN  IF l.panic THEN [kind |-> "panic", dir |-> l.dir]
             ELSE [kind |-> "return",
                   dir |-> [l.dir EXCEPT ![l.cur + 1] = ShortSlot(name, start_cluster, file_size)]]

\* the loop of remove_dentry over the long entries, from cursor cur:
\* layout.is_end() is read after layout.order = 0xE5 is stored
RECURSIVE remove_long(_, _)
remove_long(d, cur) ==
    LET stamped == [d EXCEPT ![cur + 1] = Deleted(@)]
        is_end == SlotAt(stamped, cur).is_end
        next == next_slot(cur)
    IN  IF ~next.some THEN [panic |-> TRUE, dir |-> stamped, cur |-> cur]
        ELSE IF is_end THEN [panic |-> FALSE, dir |-> stamped, cur |-> next.val]
        ELSE remove_long(stamped, next.val)

\* Fat32FS::remove_dentry of the dentry at (sector_id, offset) = slot pos
remove_dentry(d, pos) ==
    LET l == IF SlotAt(d, pos).kind = "long" THEN remove_long(d, pos)
             ELSE [panic |-> FALSE, dir |-> d, cur |-> pos]
    IN  IF l.panic THEN [kind |-> "panic", dir |-> l.dir]
        ELSE [kind |-> "return", dir |-> [l.dir EXCEPT ![l.cur + 1] = Deleted(@)]]

\* Fat32Inode::unlink(path) on the root directory, path a single component.
\* remove_dentry is handed the cursor (sector_id, offset), which get_dentry
\* has moved past the dentry it returned.
unlink(d, name) ==
    IF name = Dot THEN [kind |-> "return", ret |-> FALSE, dir |-> d]
    ELSE LET l == lookup(d, name, 0)
         IN  IF l.kind = "panic" THEN [kind |-> "panic", ret |-> FALSE, dir |-> d]
             ELSE IF l.kind = "found"
             THEN LET r == remove_dentry(d, l.pos)
                  IN  [kind |-> r.kind, ret |-> TRUE, dir |-> r.dir]
             ELSE [kind |-> "return", ret |-> TRUE, dir |-> d]

\* sys_unlinkat(name): 0 when unlink(name) is true, -1 otherwise
sys_unlinkat(d, name) ==
    LET u == unlink(d, name)
    IN  [kind |-> u.kind, ret |-> IF u.ret THEN 0 ELSE -1, dir |-> u.dir]

\* while let Some(_) = fs.get_dentry(..) { }: the cursor where the iteration
\* ends, or a panic inside get_dentry
RECURSIVE walk_to_end(_, _)
walk_to_end(d, pos) ==
    LET g == get_dentry(d, pos)
    IN  IF g.kind = "panic" THEN [panic |-> TRUE, pos |-> pos]
        ELSE IF g.kind = "none" THEN [panic |-> FALSE, pos |-> pos]
        ELSE walk_to_end(d, g.pos)

\* Fat32Inode::create(name, stat) on the root directory: kind, the Option
\* returned (some, inode), and the FAT and the directory afterwards
create(f, d, name) ==
    LET found == find(d, name)
        w == walk_to_end(d, 0)
        a == alloc_new_cluster(f)
        ins == insert_dentry(d, name, 0, a.val)
        unchanged == [kind |-> "return", some |-> FALSE, inode |-> Inode(0, 0),
                      fat |-> f, dir |-> d]
    IN  IF found.kind = "panic" THEN [unchanged EXCEPT !.kind = "panic"]
        ELSE IF found.kind = "some" THEN unchanged
        ELSE IF w.panic THEN [unchanged EXCEPT !.kind = "panic"]
        ELSE IF ~a.some THEN [unchanged EXCEPT !.kind = "panic"]
        ELSE [kind |-> ins.kind, some |-> ins.kind = "return", inode |-> Inode(a.val, 0),
              fat |-> a.fat, dir |-> ins.dir]

\* Fat32Inode::ls(): the names pushed, or a panic inside get_dentry
RECURSIVE ls_loop(_, _, _)
ls_loop(d, pos, v) ==
    LET g == get_dentry(d, pos)
    IN  IF g.kind = "panic" THEN [kind |-> "panic", names |-> v]
        ELSE IF g.kind = "none" THEN [kind |-> "return", names |-> v]
        ELSE ls_loop(d, g.pos, Append(v, g.dentry.name))
ls(d) == ls_loop(d, 0, <<>>)


\* ---- volumes loaded by Fat32FS::load, and the operations on them ----
\* the file names of the model, and the names paths may give
NameA == <<"a">>
NameB == <<"b", "b">>
FileNames == {NameA, NameB}
PathNames == FileNames \cup {Dot}

\* the entry set insert_dentry writes for a file: long entries, short entry
EntrySet(name, start, size) ==
    insert_dentry(<<EmptySlot, EmptySlot>>, name, size, start).dir
\* a directory sector: the entry sets, then empty slots up to its end
Pad(slots) == slots \o [i \in 1 .. (DirSlots - Len(slots)) |-> EmptySlot]

\* a FAT in which the root directory is one cluster and a file of n
\* clusters starts at cluster 3; the other clusters are free
FatWithFile(n) ==
    [c \in Clusters |->
        IF c = RootCluster THEN EOC
        ELSE IF c < RootCluster + n THEN c + 1
        ELSE IF c = RootCluster + n THEN EOC
        ELSE FreeEntry]
ZeroData == [c \in DataClusters |-> [i \in 1 .. CLUSTER_SIZE |-> 0]]

\* volumes with one file "a" of n clusters and a size within its last cluster
FileVolumes ==
    { [fat |-> FatWithFile(1), dir |-> Pad(EntrySet(NameA, RootCluster + 1, size))] :
        size \in {0, CLUSTER_SIZE} }
    \cup
    { [fat |-> FatWithFile(2), dir |-> Pad(EntrySet(NameA, RootCluster + 1, size))] :
        size \in {CLUSTER_SIZE + 1, 2 * CLUSTER_SIZE} }
\* a FAT with a chain of two clusters from cluster 3 and a chain of one
\* cluster at cluster 5 (unlink leaves the chain of a removed file in place)
FatOfDir ==
    [c \in Clusters |->
        IF c = RootCluster THEN EOC
        ELSE IF c = 3 THEN 4
        ELSE IF c \in {4, 5} THEN EOC
        ELSE FreeEntry]
\* volumes whose root directory holds nothing, one file, two files, or a
\* file whose entry set ends at the last slot of the directory's cluster,
\* after the tombstones of removed entries
DirVolumes ==
    LET a == EntrySet(NameA, 3, CLUSTER_SIZE + 1)
        b == EntrySet(NameB, 5, 0)
        removed == [i \in 1 .. (DirSlots - 2) |-> Deleted(ShortSlot(NameB, 5, 0))]
    IN  { [fat |-> FatOfDir, dir |-> Pad(slots)] :
            slots \in { <<>>, a, b, a \o b, b \o a, removed \o a } }

NoFsOp ==
    [op |-> "init", kind |-> "return", name |-> <<>>, off |-> 0, buf |-> <<>>, len |-> 0,
     ret |-> 0, out |-> <<>>, names |-> <<>>, some |-> FALSE, start |-> 0, size |-> 0]

InitFsOn(volumes) ==
    /\ \E v \in volumes : fat = v.fat /\ dir = v.dir
    /\ data = ZeroData
    /\ fs_last = NoFsOp
InitFs == InitFsOn({ [fat |-> FatWithFile(1), dir |-> Pad(EntrySet(NameA, 3, 0))] })

\* the buffers and offsets user programs pass to read and write
Bufs == { <<1>>, <<1, 2>> }
Offsets == {0, CLUSTER_SIZE - 1, CLUSTER_SIZE}

\* write_at on the inode find(name) returned
WriteAt(name, offset, buf) ==
    /\ ~panicked
    /\ find(dir, name).kind = "some"
    /\ LET inode == find(dir, name).inode
           r == write_at(fat, data, inode, offset, buf)
       IN  /\ data' = r.data
           /\ fs_last' = [NoFsOp EXCEPT !.op = "write_at", !.name = name, !.off = offset,
                                        !.buf = buf, !.len = Len(buf), !.ret = r.ret,
                                        !.start = inode.start_cluster,
                                        !.size = inode.fize_size]
    /\ UNCHANGED <<fat, dir, panicked>>
    /\ UNCHANGED <<memVars, procVars, sigVars, fdVars, schedVars, execVars>>

\* read_at on the inode find(name) returned, into a buffer of len bytes
ReadAt(name, offset, len, overflow_checks) ==
    /\ ~panicked
    /\ find(dir, name).kind = "some"
    /\ LET inode == find(dir, name).inode
           r == read_at(fat, data, inode, offset, len, overflow_checks)
       IN  /\ panicked' = (r.kind = "panic")
           /\ fs_last' = [NoFsOp EXCEPT !.op = "read_at", !.kind = r.kind, !.name = name,
                                        !.off = offset, !.len = len, !.ret = Len(r.out),
                                        !.out = r.out, !.start = inode.start_cluster,
                                        !.size = inode.fize_size]
    /\ UNCHANGED <<fat, data, dir>>
    /\ UNCHANGED <<memVars, procVars, sigVars, fdVars, schedVars, execVars>>

\* fat.alloc_new_cluster(bdev).unwrap()
AllocCluster ==
    /\ ~panicked
    /\ LET a == alloc_new_cluster(fat)
       IN  /\ fat' = a.fat
           /\ panicked' = ~a.some
           /\ fs_last' = [NoFsOp EXCEPT !.op = "alloc",
                                        !.kind = IF a.some THEN "return" ELSE "panic",
                                        !.some = a.some, !.start = a.val]
    /\ UNCHANGED <<data, dir>>
    /\ UNCHANGED <<memVars, procVars, sigVars, fdVars, schedVars, execVars>>

InsertDentry(name, file_size, start_cluster) ==
    /\ ~panicked
    /\ LET r == insert_dentry(dir, name, file_size, start_cluster)
       IN  /\ dir' = r.dir
           /\ panicked' = (r.kind # "return")
           /\ fs_last' = [NoFsOp EXCEPT !.op = "insert_dentry", !.kind = r.kind,
                                        !.name = name, !.start = start_cluster,
                                        !.size = file_size]
    /\ UNCHANGED <<fat, data>>
    /\ UNCHANGED <<memVars, procVars, sigVars, fdVars, schedVars, execVars>>

Find(name) ==
    /\ ~panicked
    /\ LET r == find(dir, name)
       IN  /\ panicked' = (r.kind = "panic")
           /\ fs_last' = [NoFsOp EXCEPT !.op = "find",
                                        !.kind = IF r.kind = "panic" THEN "panic" ELSE "return",
                                        !.name = name, !.some = (r.kind = "some"),
                                        !.start = r.inode.start_cluster,
                                        !.size = r.inode.fize_size]
    /\ UNCHANGED <<fat, data, dir>>
    /\ UNCHANGED <<memVars, procVars, sigVars, fdVars, schedVars, execVars>>

Create(name) ==
    /\ ~panicked
    /\ LET r == create(fat, dir, name)
       IN  /\ fat' = r.fat
           /\ dir' = r.dir
           /\ panicked' = (r.kind # "return")
           /\ fs_last' = [NoFsOp EXCEPT !.op = "create", !.kind = r.kind, !.name = name,
                                        !.some = r.some, !.start = r.inode.start_cluster,
                                        !.size = r.inode.fize_size]
    /\ UNCHANGED data
    /\ UNCHANGED <<memVars, procVars, sigVars, fdVars, schedVars, execVars>>

\* remove_dentry(&dentry) of the dentry get_dentry returned for name
RemoveDentry(name) ==
    /\ ~panicked
    /\ lookup(dir, name, 0).kind = "found"
    /\ LET r == remove_dentry(dir, lookup(dir, name, 0).at)
       IN  /\ dir' = r.dir
           /\ panicked' = (r.kind # "return")
           /\ fs_last' = [NoFsOp EXCEPT !.op = "remove_dentry", !.kind = r.kind,
                                        !.name = name]
    /\ UNCHANGED <<fat, data>>
    /\ UNCHANGED <<memVars, procVars, sigVars, fdVars, schedVars, execVars>>

Unlinkat(name) ==
    /\ ~panicked
    /\ LET r == sys_unlinkat(dir, name)
       IN  /\ dir' = r.dir
           /\ panicked' = (r.kind # "return")
           /\ fs_last' = [NoFsOp EXCEPT !.op = "unlinkat", !.kind = r.kind, !.name = name,
                                        !.ret = r.ret]
    /\ UNCHANGED <<fat, data>>
    /\ UNCHANGED <<memVars, procVars, sigVars, fdVars, schedVars, execVars>>

Ls ==
    /\ ~panicked
    /\ LET r == ls(dir)
       IN  /\ panicked' = (r.kind = "panic")
           /\ fs_last' = [NoFsOp EXCEPT !.op = "ls", !.kind = r.kind, !.names = r.names]
    /\ UNCHANGED <<fat, data, dir>>
    /\ UNCHANGED <<memVars, procVars, sigVars, fdVars, schedVars, execVars>>

\* the layouts of a volume: the sector of cluster 2 and the sectors in a
\* cluster.  Sector ids stay below the end of the FAT.
Layouts == { [root_sector |-> 2, sectors_per_cluster |-> 1],
             [root_sector |-> 2, sectors_per_cluster |-> 2],
             [root_sector |-> 3, sectors_per_cluster |-> 2] }
\* Fat32FS sector of a cluster (file_system.rs:63)
cluster_id_to_sector_id(layout, cluster) ==
    layout.root_sector + (cluster - 2) * layout.sectors_per_cluster
\* cursor offsets: the first, second and last entry of a sector, and two
\* that are no entry
CursorOffsets == {0, DentrySize, SectorSize - DentrySize, DentrySize \div 2, SectorSize}

\* next_dentry_id at a cursor in sector i of a directory's cluster
NextDentryId(layout, cluster, i, offset) ==
    /\ ~panicked
    /\ i < layout.sectors_per_cluster
    /\ LET sector_id == cluster_id_to_sector_id(layout, cluster) + i
           r == next_dentry_id(fat, layout.sectors_per_cluster, sector_id, offset)
       IN  /\ sector_id \in DOMAIN fat
           /\ fs_last' = [NoFsOp EXCEPT !.op = "next_dentry_id", !.start = sector_id,
                                        !.off = offset, !.len = layout.sectors_per_cluster,
                                        !.size = layout.root_sector, !.some = r.some,
                                        !.out = r.val]
    /\ UNCHANGED <<fat, data, dir, panicked>>
    /\ UNCHANGED <<memVars, procVars, sigVars, fdVars, schedVars, execVars>>

NextDentryCursor ==
    \/ \E layout \in Layouts, cluster \in {2, 3}, i \in {0, 1}, offset \in CursorOffsets :
          NextDentryId(layout, cluster, i, offset)
    \/ AllocCluster

\* a name of two chunks, and a name of as many chunks as the directory's
\* cluster has slots
NameLong == [i \in 1 .. (LongChunk + 1) |-> "c"]
NameHuge == [i \in 1 .. (LongChunk * (DirSlots - 1) + 1) |-> "h"]
SetNames == {NameA, NameLong, NameHuge}
\* the volumes of the directory model, and one whose root directory starts
\* with a short entry that has no long entries
SetVolumes ==
    DirVolumes \cup { [fat |-> FatOfDir, dir |-> Pad(<<ShortSlot(NameB, 5, 0)>>)] }

NextDentrySets ==
    \/ \E name \in SetNames, start_cluster \in {3, 5} : InsertDentry(name, 0, start_cluster)
    \/ \E name \in {NameA, NameB, NameLong} : RemoveDentry(name)
    \/ Ls

\* ---- paths with several components ----
\* A path is the sequence of its components; path.splitn(2, '/') yields the
\* first component (name) and the rest of the path (next).
Slash == <<"/">>
RECURSIVE PathString(_)
PathString(path) ==
    IF Len(path) = 1 THEN Head(path)
    ELSE Head(path) \o Slash \o PathString(Tail(path))
\* the slots of the cluster of a directory below the root: it holds b
SubDir == Pad(EntrySet(NameB, 5, 0))

\* Fat32Inode::find(path) on the root directory.  "." recurses on the rest
\* before the mutex is taken.  A matching entry with a rest of the path
\* evaluates split.next().unwrap() for the argument of the recursive call:
\* the splitn(2, ..) iterator has given both its items, so next() is None
\* and the unwrap panics.
RECURSIVE find_path(_, _)
find_path(d, path) ==
    LET name == Head(path)
        next == Tail(path)
    IN  IF name = Dot
        THEN IF next # <<>> THEN find_path(d, next)
             ELSE [kind |-> "some", inode |-> RootInode]
        ELSE LET l == lookup(d, name, 0)
             IN  IF l.kind = "found"
                 THEN IF next # <<>>
                      THEN [kind |-> "panic", inode |-> Inode(0, 0)]
                      ELSE [kind |-> "some",
                            inode |-> Inode(l.dentry.start_cluster, l.dentry.file_size)]
                 ELSE [kind |-> l.kind, inode |-> Inode(0, 0)]

\* Fat32Inode::unlink(path) on a directory with slots d, locked when the
\* caller holds the filesystem mutex.  "." recurses on the rest before
\* self.fs.lock(); a matching entry with a rest of the path calls
\* inode.unlink(next.unwrap()) with the guard fs alive, and the lock() of
\* that call spins on the mutex its own thread holds ("deadlock").
RECURSIVE unlink_path(_, _, _)
unlink_path(d, path, locked) ==
    LET name == Head(path)
        next == Tail(path)
    IN  IF name = Dot
        THEN IF next # <<>> THEN unlink_path(d, next, locked)
             ELSE [kind |-> "return", ret |-> FALSE, dir |-> d]
        ELSE IF locked THEN [kind |-> "deadlock", ret |-> FALSE, dir |-> d]
        ELSE LET l == lookup(d, name, 0)
             IN  IF l.kind = "panic" THEN [kind |-> "panic", ret |-> FALSE, dir |-> d]
                 ELSE IF l.kind = "found"
                 THEN IF next # <<>>
                      THEN LET sub == unlink_path(SubDir, next, TRUE)
                           IN  [kind |-> sub.kind, ret |-> sub.ret, dir |-> d]
                      ELSE LET r == remove_dentry(d, l.pos)
                           IN  [kind |-> r.kind, ret |-> TRUE, dir |-> r.dir]
                 ELSE [kind |-> "return", ret |-> TRUE, dir |-> d]

\* Fat32Inode::create(name) with a path for name: find(name) walks the
\* path, the entry written carries the whole string
create_path(f, d, path) ==
    LET found == find_path(d, path)
        w == walk_to_end(d, 0)
        a == alloc_new_cluster(f)
        ins == insert_dentry(d, PathString(path), 0, a.val)
        unchanged == [kind |-> "return", some |-> FALSE, inode |-> Inode(0, 0),
                      fat |-> f, dir |-> d]
    IN  IF found.kind = "panic" THEN [unchanged EXCEPT !.kind = "panic"]
        ELSE IF found.kind = "some" THEN unchanged
        ELSE IF w.panic THEN [unchanged EXCEPT !.kind = "panic"]
        ELSE IF ~a.some THEN [unchanged EXCEPT !.kind = "panic"]
        ELSE [kind |-> ins.kind, some |-> ins.kind = "return", inode |-> Inode(a.val, 0),
              fat |-> a.fat, dir |-> ins.dir]

\* the paths user programs pass
Paths == { <<NameA>>, <<NameB>>, <<Dot>>, <<NameA, NameB>>, <<Dot, NameA>>,
           <<Dot, NameB>>, <<NameA, Dot>>, <<Dot, NameA, NameB>> }

FindPath(path) ==
    /\ ~panicked
    /\ LET r == find_path(dir, path)
       IN  /\ panicked' = (r.kind = "panic")
           /\ fs_last' = [NoFsOp EXCEPT !.op = "find",
                                        !.kind = IF r.kind = "panic" THEN "panic" ELSE "return",
                                        !.names = path, !.some = (r.kind = "some"),
                                        !.start = r.inode.start_cluster,
                                        !.size = r.inode.fize_size]
    /\ UNCHANGED <<fat, data, dir>>
    /\ UNCHANGED <<memVars, procVars, sigVars, fdVars, schedVars, execVars>>

UnlinkPath(path) ==
    /\ ~panicked
    /\ LET r == unlink_path(dir, path, FALSE)
       IN  /\ dir' = r.dir
           /\ panicked' = (r.kind # "return")
           /\ fs_last' = [NoFsOp EXCEPT !.op = "unlink", !.kind = r.kind, !.names = path,
                                        !.some = r.ret]
    /\ UNCHANGED <<fat, data>>
    /\ UNCHANGED <<memVars, procVars, sigVars, fdVars, schedVars, execVars>>

CreatePath(path) ==
    /\ ~panicked
    /\ LET r == create_path(fat, dir, path)
       IN  /\ fat' = r.fat
           /\ dir' = r.dir
           /\ panicked' = (r.kind # "return")
           /\ fs_last' = [NoFsOp EXCEPT !.op = "create", !.kind = r.kind, !.names = path,
                                        !.some = r.some, !.start = r.inode.start_cluster,
                                        !.size = r.inode.fize_size]
    /\ UNCHANGED data
    /\ UNCHANGED <<memVars, procVars, sigVars, fdVars, schedVars, execVars>>

NextPaths ==
    \/ \E path \in Paths : FindPath(path)
    \/ \E path \in Paths : UnlinkPath(path)
    \/ \E path \in Paths : CreatePath(path)

NextFat32File ==
    \/ \E offset \in Offsets, buf \in Bufs : WriteAt(NameA, offset, buf)
    \/ \E offset \in Offsets, len \in 1 .. 2, overflow_checks \in BOOLEAN :
          ReadAt(NameA, offset, len, overflow_checks)
    \/ AllocCluster

NextFat32Dir ==
    \/ \E name \in FileNames, file_size \in {0, 3}, start_cluster \in {3, 5} :
          InsertDentry(name, file_size, start_cluster)
    \/ \E name \in PathNames : Find(name)
    \/ \E name \in PathNames : Create(name)
    \/ \E name \in FileNames : RemoveDentry(name)
    \/ \E name \in PathNames : Unlinkat(name)
    \/ Ls
    \/ AllocCluster
    \/ \E name \in FileNames : WriteAt(name, 0, <<1>>)


(***************************************************************************)
(*                               sys_execve                                *)
(***************************************************************************)
\* paths are sequences of characters
PathHello == <<"h">>
PathBusybox == <<".", "/", "b">>
PathScript == <<"r", ".", "s", "h">>
PathMissing == <<"m">>
ExecPaths == {PathHello, PathBusybox, PathScript, PathMissing}
\* the files of the working directory that open_file can open
Openable == {PathHello, PathBusybox}
\* the argument arrays: null-terminated arrays of strings, by their strings
ArgArrays == { <<>>, <<"x">>, <<"x", "y">> }

\* path.ends_with(".sh")
ends_with_sh(path) ==
    /\ Len(path) >= 3
    /\ SubSeq(path, Len(path) - 2, Len(path)) = <<".", "s", "h">>

\* open_file(work_dir.inode(), path, OpenFlags::O_RDONLY)
open_file(path) == IF path \in Openable THEN Some(path) ELSE [some |-> FALSE, val |-> <<>>]

\* the address space and the trap context entry point of the initial process
InitProgram == <<"i">>
\* task.exec(elf_data, args, envp): a new address space built from the ELF,
\* and the trap context's entry point set to the ELF's
exec(elf) == [memory_set |-> elf, trap_entry |-> elf]

\* a mutant of sys_execve: the address space is replaced before the file is
\* opened
sys_execve_exec_first(ms, te, path, args) ==
    LET sh == ends_with_sh(path)
        path2 == IF sh THEN PathBusybox ELSE path
        args_vec == IF sh THEN <<"/busybox", "sh">> \o args ELSE args
        opened == open_file(path2)
        e == exec(path2)
    IN  IF opened.some
        THEN [ret |-> Len(args_vec), memory_set |-> e.memory_set, trap_entry |-> e.trap_entry]
        ELSE [ret |-> ENOENT, memory_set |-> e.memory_set, trap_entry |-> e.trap_entry]

\* sys_execve(path, args, envp) of a process with address space ms and trap
\* entry te; args is the array the args pointer leads to
sys_execve(ms, te, path, args) ==
    LET sh == ends_with_sh(path)
        path2 == IF sh THEN PathBusybox ELSE path
        args_vec == IF sh THEN <<"/busybox", "sh">> \o args ELSE args
        opened == open_file(path2)
    IN  IF opened.some
        THEN LET e == exec(opened.val)
             IN  [ret |-> Len(args_vec), memory_set |-> e.memory_set,
                  trap_entry |-> e.trap_entry]
        ELSE [ret |-> ENOENT, memory_set |-> ms, trap_entry |-> te]

InitExec ==
    /\ memory_set = InitProgram
    /\ trap_entry = InitProgram
    /\ cur_pid = CurPid
    /\ exec_last = [path |-> <<>>, opened |-> FALSE, ret |-> 0]

Execve(path, args) ==
    /\ ~panicked
    /\ LET r == sys_execve(memory_set, trap_entry, path, args)
       IN  /\ memory_set' = r.memory_set
           /\ trap_entry' = r.trap_entry
           /\ exec_last' = [path |-> path,
                            opened |-> open_file(IF ends_with_sh(path) THEN PathBusybox
                                                 ELSE path).some,
                            ret |-> r.ret]
    /\ UNCHANGED <<cur_pid, panicked>>
    /\ UNCHANGED <<memVars, procVars, sigVars, fdVars, fsVars, schedVars>>

NextExec ==
    \/ \E path \in ExecPaths, args \in ArgArrays : Execve(path, args)
    \/ \E fd \in 0 .. MaxFds : Dup(fd)
    \/ \E fd \in 0 .. MaxFds : Close(fd)


(***************************************************************************)
(*                                  pipes                                  *)
(***************************************************************************)
\* the bytes the pipes take over their lives
MaxPipeBytes == 3
\* the capacity of a pipe's ring buffer
RING_BUFFER_SIZE == 4

\* the file objects of the two ends of pipe k
PipeRead(k)  == 10 + k
PipeWrite(k) == 20 + k
PipeIds == {1, 2}
IsReadEnd(f)  == \E k \in PipeIds : f = PipeRead(k)
IsWriteEnd(f) == \E k \in PipeIds : f = PipeWrite(k)
PipeOf(f) == IF IsReadEnd(f) THEN f - 10 ELSE f - 20

\* make_pipe(): a new pipe with an empty ring buffer
make_pipe(ps) == Append(ps, [buf |-> <<>>, written |-> <<>>, read |-> <<>>])

Take(s, n) == SubSeq(s, 1, n)
Drop(s, n) == SubSeq(s, n + 1, Len(s))

\* a mutant of sys_pipe: both fds are allocated before either slot is filled
sys_pipe_alloc_twice(tab, ps) ==
    LET k == Len(ps) + 1
        a == alloc_fd(tab)
        b == alloc_fd(a.fd_table)
        t1 == SetSlot(b.fd_table, a.fd, PipeRead(k))
    IN  [ret |-> 0, fd_table |-> SetSlot(t1, b.fd, PipeWrite(k)), pipes |-> make_pipe(ps),
         data |-> <<a.fd, b.fd>>]

\* sys_pipe(pipe): data is what the call stores at pipe[0] and pipe[1]
sys_pipe(tab, ps) ==
    LET k == Len(ps) + 1
        a == alloc_fd(tab)
        t1 == SetSlot(a.fd_table, a.fd, PipeRead(k))
        b == alloc_fd(t1)
    IN  [ret |-> 0, fd_table |-> SetSlot(b.fd_table, b.fd, PipeWrite(k)),
         pipes |-> make_pipe(ps), data |-> <<a.fd, b.fd>>]

\* sys_read(fd, buf, len) on an fd that is out of range, empty, or an end of a
\* pipe.  A read of an empty pipe whose write end is open somewhere suspends,
\* and in a process of one thread nothing fills the pipe any more.
sys_read(tab, ps, fd, len) ==
    LET same == [kind |-> "return", ret |-> -1, pipes |-> ps, data |-> <<>>]
    IN  IF fd >= Len(tab) THEN same
        ELSE IF Slot(tab, fd) = NoFile THEN same
        ELSE IF ~IsReadEnd(Slot(tab, fd)) THEN same
        ELSE LET k == PipeOf(Slot(tab, fd))
                 n == min(len, Len(ps[k].buf))
             IN  IF n = 0
                 THEN IF \E g \in 0 .. (Len(tab) - 1) : Slot(tab, g) = PipeWrite(k)
                      THEN [kind |-> "hang", ret |-> 0, pipes |-> ps, data |-> <<>>]
                      ELSE [kind |-> "return", ret |-> 0, pipes |-> ps, data |-> <<>>]
                 ELSE [kind |-> "return", ret |-> n,
                       pipes |-> [ps EXCEPT ![k] = [@ EXCEPT !.buf = Drop(@, n),
                                                           !.read = @ \o Take(ps[k].buf, n)]],
                       data |-> Take(ps[k].buf, n)]

\* sys_write(fd, buf, len) on an fd that is out of range, empty, or an end of
\* a pipe.  A write that finds the ring buffer full suspends.
sys_write(tab, ps, fd, bytes) ==
    LET same == [kind |-> "return", ret |-> -1, pipes |-> ps]
    IN  IF fd >= Len(tab) THEN same
        ELSE IF Slot(tab, fd) = NoFile THEN same
        ELSE IF ~IsWriteEnd(Slot(tab, fd)) THEN same
        ELSE LET k == PipeOf(Slot(tab, fd))
                 n == min(Len(bytes), RING_BUFFER_SIZE - Len(ps[k].buf))
                 after == [ps EXCEPT ![k] = [@ EXCEPT !.buf = @ \o Take(bytes, n),
                                                      !.written = @ \o Take(bytes, n)]]
             IN  IF n < Len(bytes)
                 THEN [kind |-> "hang", ret |-> 0, pipes |-> after]
                 ELSE [kind |-> "return", ret |-> n, pipes |-> after]

PipeFds == 0 .. MaxFds
ReadLens == {1, 3}
WriteBufs == { <<1, 2, 3>> }

PipeBytes ==
    LET RECURSIVE Sum(_)
        Sum(k) == IF k = 0 THEN 0 ELSE Len(pipes[k].written) + Sum(k - 1)
    IN  Sum(Len(pipes))

Pipe ==
    /\ ~panicked
    /\ Len(pipes) < Cardinality(PipeIds)
    /\ LET r == sys_pipe(fd_table, pipes)
       IN  /\ Len(r.fd_table) <= MaxFds
           /\ fd_table' = r.fd_table
           /\ pipes' = r.pipes
           /\ fd_last' = [op |-> "pipe", fd |-> 0, flags |-> {}, data |-> r.data, ret |-> r.ret]
    /\ UNCHANGED <<memVars, procVars, sigVars, fsVars, schedVars, execVars, panicked>>

Read(fd, len) ==
    /\ ~panicked
    /\ fd < Len(fd_table) => Slot(fd_table, fd) \notin {Stdin, Stdout, Stderr}
    /\ LET r == sys_read(fd_table, pipes, fd, len)
       IN  /\ pipes' = r.pipes
           /\ panicked' = (r.kind = "hang")
           /\ fd_last' = [op |-> "read", fd |-> fd, flags |-> {}, data |-> r.data, ret |-> r.ret]
    /\ UNCHANGED fd_table
    /\ UNCHANGED <<memVars, procVars, sigVars, fsVars, schedVars, execVars>>

Write(fd, bytes) ==
    /\ ~panicked
    /\ fd < Len(fd_table) => Slot(fd_table, fd) \notin {Stdin, Stdout, Stderr}
    /\ fd < Len(fd_table) /\ IsWriteEnd(Slot(fd_table, fd)) =>
           PipeBytes + Len(bytes) <= MaxPipeBytes
    /\ LET r == sys_write(fd_table, pipes, fd, bytes)
       IN  /\ pipes' = r.pipes
           /\ panicked' = (r.kind = "hang")
           /\ fd_last' = [op |-> "write", fd |-> fd, flags |-> {}, data |-> <<>>, ret |-> r.ret]
    /\ UNCHANGED fd_table
    /\ UNCHANGED <<memVars, procVars, sigVars, fsVars, schedVars, execVars>>

NextPipe ==
    \/ Pipe
    \/ \E fd \in PipeFds, len \in ReadLens : Read(fd, len)
    \/ \E fd \in PipeFds, bytes \in WriteBufs : Write(fd, bytes)
    \/ \E fd \in PipeFds : Close(fd)

(***************************************************************************)
(*                                sys_open                                 *)
(***************************************************************************)
\* the bits OpenFlags defines: O_WRONLY, O_RDWR, O_CREAT, O_TRUNC (O_RDONLY
\* is the empty word)
OpenFlagBits == {0, 1, 6, 9}
\* OpenFlags::from_bits(flags): None when a bit is set that OpenFlags does
\* not define
OpenFlags_from_bits(flags) ==
    IF flags \subseteq OpenFlagBits THEN Some(flags) ELSE [some |-> FALSE, val |-> {}]
\* the flag words user programs pass: O_RDONLY, O_WRONLY, O_RDWR, and a word
\* with a bit OpenFlags does not define
FlagWords == { {}, {0}, {1}, {0, 30} }
\* the file object of an opened inode
OpenedFile == 4

\* sys_open(path, flags), and sys_openat(AT_FDCWD, path, flags), with flags
\* that do not hold O_CREAT
sys_open(tab, path, flags) ==
    LET fl == OpenFlags_from_bits(flags)
    IN  IF ~fl.some THEN [kind |-> "panic", ret |-> 0, fd_table |-> tab]
        ELSE IF open_file(path).some
        THEN LET a == alloc_fd(tab)
             IN  [kind |-> "return", ret |-> a.fd,
                  fd_table |-> SetSlot(a.fd_table, a.fd, OpenedFile)]
        ELSE [kind |-> "return", ret |-> -1, fd_table |-> tab]

Open(path, flags) ==
    /\ ~panicked
    /\ Len(alloc_fd(fd_table).fd_table) <= MaxFds
    /\ LET r == sys_open(fd_table, path, flags)
       IN  /\ fd_table' = r.fd_table
           /\ panicked' = (r.kind = "panic")
           /\ fd_last' = [op |-> "open", fd |-> 0, flags |-> flags, data |-> <<>>,
                        ret |-> r.ret]
    /\ UNCHANGED pipes
    /\ UNCHANGED <<memVars, procVars, sigVars, fsVars, schedVars, execVars>>

\* the syscalls that decode an argument word with from_bits
NextArgWords ==
    \/ \E pid \in {-1} \cup ChildPids, ptr_null \in BOOLEAN, option \in WaitOptions :
          Wait4Call(pid, ptr_null, option)
    \/ \E how \in Hows, set \in SetWords, old_null \in BOOLEAN :
          Sigprocmask(how, FALSE, set, old_null)
    \/ \E path \in {PathHello, PathMissing}, flags \in FlagWords : Open(path, flags)

\* ---- sys_openat ----
AT_FDCWD == -100
\* the file object of an opened directory inode
OpenedDir == 5
\* File::fstat: the stat of an inode-backed handle, None for a pipe end
fstat(f) ==
    IF f = OpenedDir THEN Some("dir")
    ELSE IF f = OpenedFile THEN Some("file")
    ELSE [some |-> FALSE, val |-> ""]
\* File::is_dir, the default method of the trait
is_dir(f) ==
    LET stat == fstat(f)
    IN  IF stat.some THEN stat.val = "dir" ELSE TRUE

\* what open_file does on a reference that was made from a handle that is no
\* OSInode (undefined behaviour): it panics, gives an inode or gives None
CastOutcomes == {"panic", "some", "none"}

\* sys_openat(dirfd, path, flags).  `dirfd as usize` of a negative dirfd is
\* past the end of every table.  &*(dir.as_ref() as *const dyn File as
\* *const OSInode) is the handle itself when it is an OSInode; for any other
\* handle the outcome of open_file on it is `cast`.
sys_openat(tab, dirfd, path, flags, cast) ==
    LET unchanged == [kind |-> "return", ret |-> -1, fd_table |-> tab]
        fl == OpenFlags_from_bits(flags)
        a == alloc_fd(tab)
        opened == [kind |-> "return", ret |-> a.fd,
                   fd_table |-> SetSlot(a.fd_table, a.fd, OpenedFile)]
    IN  IF dirfd = AT_FDCWD THEN sys_open(tab, path, flags)
        ELSE IF dirfd < 0 \/ dirfd >= Len(tab) THEN unchanged
        ELSE IF Slot(tab, dirfd) = NoFile THEN unchanged
        ELSE IF ~is_dir(Slot(tab, dirfd)) THEN unchanged
        ELSE IF ~fl.some THEN [unchanged EXCEPT !.kind = "panic", !.ret = 0]
        ELSE IF Slot(tab, dirfd) \in {OpenedFile, OpenedDir}
        THEN IF open_file(path).some THEN opened ELSE unchanged
        ELSE IF cast = "panic" THEN [unchanged EXCEPT !.kind = "panic", !.ret = 0]
        ELSE IF cast = "some" THEN opened
        ELSE unchanged

\* a process that has opened its working directory as fd 3
InitFdDir ==
    /\ fd_table = <<Stdin, Stdout, Stderr, OpenedDir>>
    /\ fd_last = [op |-> "init", fd |-> 0, flags |-> {}, data |-> <<>>, ret |-> 0]
    /\ pipes = <<>>

OpenAt(dirfd, path, flags, cast) ==
    /\ ~panicked
    /\ Len(alloc_fd(fd_table).fd_table) <= MaxFds
    /\ (dirfd >= 0 /\ dirfd < Len(fd_table)) =>
           Slot(fd_table, dirfd) \notin {Stdin, Stdout, Stderr}
    /\ LET r == sys_openat(fd_table, dirfd, path, flags, cast)
       IN  /\ fd_table' = r.fd_table
           /\ panicked' = (r.kind = "panic")
           /\ fd_last' = [op |-> "openat", fd |-> dirfd, flags |-> flags, data |-> <<>>,
                          ret |-> r.ret]
    /\ UNCHANGED pipes
    /\ UNCHANGED <<memVars, procVars, sigVars, fsVars, schedVars, execVars>>

NextOpenAt ==
    \/ Pipe
    \/ \E fd \in 0 .. MaxFds : Close(fd)
    \/ \E dirfd \in {AT_FDCWD} \cup (0 .. MaxFds), path \in {PathHello, PathMissing},
          flags \in { {}, {1} }, cast \in CastOutcomes :
          OpenAt(dirfd, path, flags, cast)

(***************************************************************************)
(*        the locks a thread holds at suspend_current_and_run_next         *)
(***************************************************************************)
\* Each blocking syscall as the sequence of its statements that take or drop
\* a guard, branch, suspend or return.  Branches on data (a child is a
\* zombie, the time is reached, the pipe is empty) are choices.
Threads == {1, 2}
\* thread 1 is the parent of thread 2's process
Children(t) == IF t = 1 THEN {2} ELSE {}
Inner(t) == <<"inner", t>>
ProcessInner == <<"process.inner", 0>>
PipeBuffer == <<"pipe.buffer", 0>>

Acq(l) == [op |-> "acquire", lock |-> l, to |-> {}]
Rel(l) == [op |-> "release", lock |-> l, to |-> {}]
Go(s)  == [op |-> "goto", lock |-> <<"", 0>>, to |-> s]
Susp   == [op |-> "suspend", lock |-> <<"", 0>>, to |-> {}]
Ret    == [op |-> "return", lock |-> <<"", 0>>, to |-> {}]

\* sys_yield (process.rs:121-125)
locks_sys_yield == <<Susp, Ret>>

\* sys_sleep (sync.rs:8-43): loop { if is_end(end_time) { break } else { suspend } }
locks_sys_sleep == <<Go({2, 4}), Susp, Go({1}), Ret>>

\* a mutant of sys_wait4: inner is not dropped before the call suspends
locks_sys_wait4_keep(t) ==
    LET c == IF Children(t) = {} THEN t ELSE CHOOSE x \in Children(t) : TRUE
    IN  << Acq(Inner(t)),
           Go(IF Children(t) = {} THEN {13} ELSE {3, 13}),
           Acq(Inner(c)),
           Rel(Inner(c)),
           Go({6, 9}),
           Acq(Inner(c)),
           Rel(Inner(c)),
           Ret,
           Go({10}),
           Go({11, 13}),
           Susp,
           Go({1}),
           Ret >>

\* sys_wait4 (process.rs:282-337)
locks_sys_wait4(t) ==
    LET c == IF Children(t) = {} THEN t ELSE CHOOSE x \in Children(t) : TRUE
    IN  << Acq(Inner(t)),                       \* 287 task.inner_exclusive_access
           \* 288-295 no child matches: return ECHILD
           Go(IF Children(t) = {} THEN {13} ELSE {3, 13}),
           Acq(Inner(c)),                       \* 297 p.inner_exclusive_access in find
           Rel(Inner(c)),                       \*     the temporary guard is dropped
           Go({6, 9}),                          \* 300 if let Some((idx, _)) = pair
           Acq(Inner(c)),                       \* 306 child.inner_exclusive_access
           Rel(Inner(c)),                       \* 309 release child PCB
           Ret,                                 \* 319 return found_pid
           Rel(Inner(t)),                       \* 322 drop(inner)
           Go({11, 13}),                        \* 324 WNOHANG: return 0
           Susp,                                \* 329 suspend_current_and_run_next
           Go({1}),                             \* loop
           Ret >>

\* sys_read (fs.rs:40-63) and the read of a pipe it reaches through file.read
locks_sys_read ==
    << Acq(ProcessInner),                       \* 49 process.inner_exclusive_access
       Go({3, 9}),                              \* 50-53, 63 bad fd, not readable: -1
       Rel(ProcessInner),                       \* 58 drop(inner)
       Acq(PipeBuffer),                         \* Pipe::read locks the ring buffer
       Go({6, 9}),                              \* bytes to read: copy and return
       Rel(PipeBuffer),                         \* empty: drop the buffer
       Susp,
       Go({4}),
       Ret >>

\* sys_write (fs.rs:15-38) and the write of a pipe it reaches through file.write
locks_sys_write ==
    << Acq(ProcessInner),                       \* 22 process.inner_exclusive_access
       Go({3, 9}),                              \* 23-29, 37 bad fd, not writable: -1
       Rel(ProcessInner),                       \* 32 drop(inner)
       Acq(PipeBuffer),                         \* Pipe::write locks the ring buffer
       Go({6, 9}),                              \* room to write: copy and return
       Rel(PipeBuffer),                         \* full: drop the buffer
       Susp,
       Go({4}),
       Ret >>

BlockingCalls == {"sys_yield", "sys_sleep", "sys_wait4", "sys_read", "sys_write"}

Statements(t, call) ==
    CASE call = "sys_yield" -> locks_sys_yield
      [] call = "sys_sleep" -> locks_sys_sleep
      [] call = "sys_wait4" -> locks_sys_wait4(t)
      [] call = "sys_read"  -> locks_sys_read
      [] call = "sys_write" -> locks_sys_write
      [] OTHER -> <<>>

InUser == [call |-> "user", pos |-> 0]
\* the statement thread t is at
AtStmt(t) ==
    IF sys_pc[t].call = "user" THEN [op |-> "user", lock |-> <<"", 0>>, to |-> {}]
    ELSE Statements(t, sys_pc[t].call)[sys_pc[t].pos]

InitLocks ==
    /\ cur_task = 1
    /\ sys_pc = [t \in Threads |-> InUser]
    /\ held = [t \in Threads |-> {}]
    /\ clock = 0
    /\ sleep = [pc |-> "user", end_time |-> 0, yielded |-> FALSE, ret |-> NoneV]

LockFrame == UNCHANGED <<ready_queue, run_count, sched_last, clock, sleep, memVars, procVars,
                         sigVars, fdVars, fsVars, execVars>>

\* the running thread traps into a syscall
Syscall(call) ==
    /\ ~panicked
    /\ sys_pc[cur_task] = InUser
    /\ sys_pc' = [sys_pc EXCEPT ![cur_task] = [call |-> call, pos |-> 1]]
    /\ UNCHANGED <<cur_task, held, panicked>>
    /\ LockFrame

\* exclusive access: UPSafeCell's borrow_mut panics when the cell is borrowed
Acquire ==
    /\ ~panicked
    /\ AtStmt(cur_task).op = "acquire"
    /\ LET l == AtStmt(cur_task).lock
       IN  IF \E t \in Threads : l \in held[t]
           THEN /\ panicked' = TRUE
                /\ UNCHANGED <<sys_pc, held>>
           ELSE /\ held' = [held EXCEPT ![cur_task] = @ \cup {l}]
                /\ sys_pc' = [sys_pc EXCEPT ![cur_task].pos = @ + 1]
                /\ UNCHANGED panicked
    /\ UNCHANGED cur_task
    /\ LockFrame

\* drop(guard), or the end of the guard's scope
Release ==
    /\ ~panicked
    /\ AtStmt(cur_task).op = "release"
    /\ held' = [held EXCEPT ![cur_task] = @ \ {AtStmt(cur_task).lock}]
    /\ sys_pc' = [sys_pc EXCEPT ![cur_task].pos = @ + 1]
    /\ UNCHANGED <<cur_task, panicked>>
    /\ LockFrame

Branch ==
    /\ ~panicked
    /\ AtStmt(cur_task).op = "goto"
    /\ \E p \in AtStmt(cur_task).to : sys_pc' = [sys_pc EXCEPT ![cur_task].pos = p]
    /\ UNCHANGED <<cur_task, held, panicked>>
    /\ LockFrame

\* suspend_current_and_run_next: the caller goes to the ready queue with what
\* it holds, and the hart switches to a ready thread
Suspend ==
    /\ ~panicked
    /\ AtStmt(cur_task).op = "suspend"
    /\ sys_pc' = [sys_pc EXCEPT ![cur_task].pos = @ + 1]
    /\ cur_task' \in Threads
    /\ UNCHANGED <<held, panicked>>
    /\ LockFrame

\* the syscall returns: the guards still in scope are dropped
Return ==
    /\ ~panicked
    /\ AtStmt(cur_task).op = "return"
    /\ sys_pc' = [sys_pc EXCEPT ![cur_task] = InUser]
    /\ held' = [held EXCEPT ![cur_task] = {}]
    /\ UNCHANGED <<cur_task, panicked>>
    /\ LockFrame

NextLocks ==
    \/ \E call \in BlockingCalls : Syscall(call)
    \/ Acquire
    \/ Release
    \/ Branch
    \/ Suspend
    \/ Return

(***************************************************************************)
(*                                sys_sleep                                *)
(***************************************************************************)
\* bound of the clock model: the last tick
MaxClock == 6
\* ticks per second and nanoseconds per second, scaled down
CLOCK_FREQ == 2
NSEC_PER_SEC == 4
\* 2^64, the range of usize, scaled down
UsizeRange == 16

\* get_time() + sec as usize * CLOCK_FREQ + nano_sec as usize * CLOCK_FREQ /
\* NSEC_PER_SEC on usize: None is the panic of a build with overflow checks,
\* a build without them wraps
end_time_of(now, sec, nano_sec, overflow_checks) ==
    LET secs == sec * CLOCK_FREQ
        nanos == nano_sec * CLOCK_FREQ
        sum1 == now + (secs % UsizeRange)
        sum2 == (sum1 % UsizeRange) + ((nanos % UsizeRange) \div NSEC_PER_SEC)
        overflow == \/ secs >= UsizeRange \/ nanos >= UsizeRange
                    \/ sum1 >= UsizeRange \/ sum2 >= UsizeRange
    IN  IF overflow /\ overflow_checks THEN NoneV ELSE Some(sum2 % UsizeRange)

\* a mutant of is_end: the end time counts as reached one tick early
is_end_early(now, end_time) == now + 1 >= end_time

\* is_end(end_time), with now the value of get_time()
is_end(now, end_time) == now >= end_time

SleepFrame ==
    /\ UNCHANGED <<ready_queue, run_count, sched_last, cur_task, sys_pc, held>>
    /\ UNCHANGED <<memVars, procVars, sigVars, fdVars, fsVars, execVars>>

\* the timer counts on
Tick ==
    /\ ~panicked
    /\ clock < MaxClock
    /\ clock' = clock + 1
    /\ UNCHANGED <<sleep, panicked>>
    /\ SleepFrame

\* sys_sleep(time_req, time_remain) up to the loop: *time_req holds sec and
\* nano_sec
SleepCall(sec, nano_sec, overflow_checks) ==
    /\ ~panicked
    /\ sleep.pc = "user"
    /\ LET e == end_time_of(clock, sec, nano_sec, overflow_checks)
       IN  /\ e.some => e.val <= MaxClock
           /\ panicked' = ~e.some
           /\ sleep' = [pc |-> IF e.some THEN "loop" ELSE "entry", end_time |-> e.val,
                        yielded |-> FALSE, ret |-> NoneV]
    /\ UNCHANGED clock
    /\ SleepFrame

\* one pass of the loop: break and return 0, or suspend_current_and_run_next()
SleepCheck ==
    /\ ~panicked
    /\ sleep.pc = "loop"
    /\ sleep' = IF is_end(clock, sleep.end_time)
                THEN [sleep EXCEPT !.pc = "user", !.end_time = 0, !.ret = Some(0)]
                ELSE [sleep EXCEPT !.pc = "suspended", !.yielded = TRUE]
    /\ UNCHANGED <<clock, panicked>>
    /\ SleepFrame

\* the scheduler switches back to the task: suspend_current_and_run_next()
\* returns
SleepResume ==
    /\ ~panicked
    /\ sleep.pc = "suspended"
    /\ sleep' = [sleep EXCEPT !.pc = "loop"]
    /\ UNCHANGED <<clock, panicked>>
    /\ SleepFrame

\* the requests user programs pass: no time, fractions of a second, seconds,
\* and a number of seconds whose ticks do not fit usize
NextSleep ==
    \/ Tick
    \/ \E sec \in {0, 1, 2, UsizeRange \div CLOCK_FREQ}, nano_sec \in {0, 2},
          overflow_checks \in BOOLEAN :
          SleepCall(sec, nano_sec, overflow_checks)
    \/ SleepCheck
    \/ SleepResume

(***************************************************************************)
(*                          the stride scheduler                           *)
(***************************************************************************)
\* bounds of the scheduler model: ready tasks, and scheduling rounds
MaxTasks == 3
MaxRounds == 30
\* config::BIG_STRIDE, scaled down, and the stride past which the strides
\* are normalised
BIG_STRIDE == 64
Watermark == BIG_STRIDE \div 2

\* TaskControlBlock::new: priority 16, stride 0, pass BIG_STRIDE / 16
TaskControlBlock_new(tid) ==
    [tid |-> tid, priority |-> 16, stride |-> 0, pass |-> BIG_STRIDE \div 16]

\* a mutant of fetch: the first of the tasks with the maximum stride
fetch_max(q) ==
    CHOOSE i \in 1 .. Len(q) :
        /\ \A j \in 1 .. Len(q) : q[i].stride >= q[j].stride
        /\ \A j \in 1 .. (i - 1) : q[j].stride # q[i].stride

\* the index in the queue of the task to run: the first of the tasks with
\* the minimum stride
fetch(q) ==
    CHOOSE i \in 1 .. Len(q) :
        /\ \A j \in 1 .. Len(q) : q[i].stride <= q[j].stride
        /\ \A j \in 1 .. (i - 1) : q[j].stride # q[i].stride
\* overflow of stride: past the watermark the global minimum is subtracted
\* from every stride
normalise(q) ==
    LET lowest == CHOOSE s \in { q[i].stride : i \in 1 .. Len(q) } :
                      \A j \in 1 .. Len(q) : s <= q[j].stride
    IN  IF \E i \in 1 .. Len(q) : q[i].stride > Watermark
        THEN [i \in 1 .. Len(q) |-> [q[i] EXCEPT !.stride = @ - lowest]]
        ELSE q

\* one scheduling round: the task at index i is taken off the queue and
\* runs; on its yield stride += pass and it is put at the back of the queue
round(q, i) ==
    LET task == q[i]
        rest == [j \in 1 .. (Len(q) - 1) |-> IF j < i THEN q[j] ELSE q[j + 1]]
    IN  normalise(Append(rest, [task EXCEPT !.stride = @ + task.pass]))

\* the rounds so far
Rounds == LET RECURSIVE Sum(_)
              Sum(S) == IF S = {} THEN 0
                        ELSE LET t == CHOOSE x \in S : TRUE
                             IN  run_count[t] + Sum(S \ {t})
          IN  Sum(DOMAIN run_count)

\* a mutant of sys_set_priority: the argument is stored as the priority of
\* the task that ran last, whatever it is
sys_set_priority_stores(q, prio) ==
    [ret |-> prio,
     ready_queue |-> [q EXCEPT ![Len(q)] = [@ EXCEPT !.priority = prio]]]

\* sys_set_priority(prio): traces the call and returns 0
sys_set_priority(q, prio) == [ret |-> 0, ready_queue |-> q]

\* the arguments user programs pass to sys_set_priority
Priorities == {-1, 0, 1, 2, 16, 255, 256}

\* k new tasks, queued in any order
InitSched ==
    \E k \in 1 .. MaxTasks :
        /\ ready_queue \in { q \in [1 .. k -> { TaskControlBlock_new(t) : t \in 1 .. k }] :
                                \A i, j \in 1 .. k : q[i] = q[j] => i = j }
        /\ run_count = [t \in 1 .. k |-> 0]
        /\ sched_last = [op |-> "init", prio |-> 0, signal |-> 0, stack |-> 0, ret |-> 0]
        /\ InitLocks
InitSchedIdle ==
    /\ ready_queue = <<TaskControlBlock_new(1)>>
    /\ run_count = [t \in 1 .. 1 |-> 0]
    /\ sched_last = [op |-> "init", prio |-> 0, signal |-> 0, stack |-> 0, ret |-> 0]
    /\ InitLocks

Schedule ==
    /\ ~panicked
    /\ Rounds < MaxRounds
    /\ LET i == fetch(ready_queue)
       IN  /\ run_count' = [run_count EXCEPT ![ready_queue[i].tid] = @ + 1]
           /\ ready_queue' = round(ready_queue, i)
    /\ UNCHANGED <<sched_last, cur_task, sys_pc, held, clock, sleep>>
    /\ UNCHANGED <<memVars, procVars, sigVars, fdVars, fsVars, execVars, panicked>>

SetPriority(prio) ==
    /\ ~panicked
    /\ LET r == sys_set_priority(ready_queue, prio)
       IN  /\ ready_queue' = r.ready_queue
           /\ sched_last' = [op |-> "set_priority", prio |-> prio, signal |-> 0, stack |-> 0,
                           ret |-> r.ret]
    /\ UNCHANGED <<run_count, cur_task, sys_pc, held, clock, sleep>>
    /\ UNCHANGED <<memVars, procVars, sigVars, fdVars, fsVars, execVars, panicked>>

\* the bit of CloneFlags::CLONE_THREAD
CLONE_THREAD == 16

\* sys_clone(flags, stack_ptr, ptid, tls, ctid) called by the task of pid
\* `pid`, the flags given as signal == flags & CSIGNAL and clone_bits == the
\* set bits of flags & !CSIGNAL (all of them bits CloneFlags defines, none of
\* them CLONE_PARENT_SETTID, CLONE_CHILD_SETTID or CLONE_CHILD_CLEARTID).
\* SignalFlags is a 32-bit word.  clone2 makes a TCB in the caller's process
\* and adds it to the ready queue.
sys_clone(q, pid, signal, clone_bits, stack_ptr, overflow_checks) ==
    LET \* (flags & CSIGNAL) - 1 on usize, then 1 << that on a 32-bit word
        \* (0 - 1 wraps to usize::MAX, and the shift amount is taken modulo 32)
        shift == IF signal = 0 THEN 31 ELSE (signal - 1) % 32
        overflow == signal = 0 \/ signal - 1 >= 32
        exit_signal == SignalFlags_from_bits({shift})
        tid == Len(q) + 1
    IN  IF overflow /\ overflow_checks
        THEN [kind |-> "panic", ret |-> 0, ready_queue |-> q]
        ELSE IF ~exit_signal.some
        THEN [kind |-> "panic", ret |-> 0, ready_queue |-> q]
        ELSE IF CLONE_THREAD \notin clone_bits
        THEN [kind |-> "fork", ret |-> 0, ready_queue |-> q]
        ELSE [kind |-> "return", ret |-> IF tid = pid THEN 0 ELSE tid,
              ready_queue |-> Append(q, TaskControlBlock_new(tid))]

\* no exit signal, as thread libraries pass, and SIGCHLD
ExitSignals == {0, 17}
ThreadFlags == { {CLONE_THREAD}, {8, CLONE_THREAD} }
StackPtrs == {0, 8192}

\* sys_clone with CLONE_THREAD (without it: CloneFork)
CloneThread(signal, clone_bits, stack_ptr, overflow_checks) ==
    /\ ~panicked
    /\ Len(ready_queue) < MaxTasks
    /\ CLONE_THREAD \in clone_bits
    /\ LET r == sys_clone(ready_queue, cur_pid, signal, clone_bits, stack_ptr, overflow_checks)
       IN  /\ ready_queue' = r.ready_queue
           /\ run_count' = [t \in 1 .. Len(r.ready_queue) |->
                               IF t \in DOMAIN run_count THEN run_count[t] ELSE 0]
           /\ panicked' = (r.kind = "panic")
           /\ sched_last' = [op |-> "clone", prio |-> 0, signal |-> signal,
                             stack |-> stack_ptr, ret |-> r.ret]
    /\ UNCHANGED <<cur_task, sys_pc, held, clock, sleep>>
    /\ UNCHANGED <<memVars, procVars, sigVars, fdVars, fsVars, execVars>>

NextClone ==
    \/ Schedule
    \/ \E signal \in ExitSignals, clone_bits \in ThreadFlags, stack_ptr \in StackPtrs,
          overflow_checks \in BOOLEAN :
          CloneThread(signal, clone_bits, stack_ptr, overflow_checks)

NextSched ==
    \/ Schedule
    \/ \E prio \in Priorities : SetPriority(prio)


(***************************************************************************)
(*                            specifications                               *)
(***************************************************************************)
\* the state after boot, but for the volume and the ready queue
InitKernel ==
    /\ InitMem
    /\ InitProc
    /\ InitSig
    /\ InitFd
    /\ InitExec
    /\ panicked = FALSE

Init == InitKernel /\ InitFs /\ InitSchedIdle
InitFat32File == InitKernel /\ InitFsOn(FileVolumes) /\ InitSchedIdle
InitFat32Dir == InitKernel /\ InitFsOn(DirVolumes) /\ InitSchedIdle
InitDentrySets == InitKernel /\ InitFsOn(SetVolumes) /\ InitSchedIdle
InitStride == InitKernel /\ InitFs /\ InitSched
InitOpenAt ==
    /\ InitMem /\ InitProc /\ InitSig /\ InitFdDir /\ InitExec /\ panicked = FALSE
    /\ InitFs /\ InitSchedIdle

NextBrk == \E addr \in BrkAddrs : Brk(addr)

SpecBrk == Init /\ [][NextBrk]_vars

SpecWait == Init /\ [][NextWait]_vars

\* the scheduler is fair to the caller: a task put back on the ready queue by
\* suspend_current_and_run_next is eventually switched to again
SpecWaitFair == SpecWait /\ WF_vars(Wait4Resume)

SpecSig == Init /\ [][NextSig]_vars

SpecFd == Init /\ [][NextFd]_vars

SpecFat32File == InitFat32File /\ [][NextFat32File]_vars

SpecFat32Dir == InitFat32Dir /\ [][NextFat32Dir]_vars

SpecPaths == InitFat32Dir /\ [][NextPaths]_vars

SpecExec == Init /\ [][NextExec]_vars

SpecSched == InitStride /\ [][NextSched]_vars

SpecArgWords == Init /\ [][NextArgWords]_vars

SpecLocks == Init /\ [][NextLocks]_vars

SpecDentrySets == InitDentrySets /\ [][NextDentrySets]_vars

SpecDentryCursor == InitFat32Dir /\ [][NextDentryCursor]_vars

SpecPipe == Init /\ [][NextPipe]_vars

SpecClone == InitStride /\ [][NextClone]_vars

SpecOpenAt == InitOpenAt /\ [][NextOpenAt]_vars

SpecDup3 == Init /\ [][NextDup3]_vars

SpecSleep == Init /\ [][NextSleep]_vars

\* the clock keeps advancing, the task runs when it is current, and the
\* scheduler is fair to it: a task put back on the ready queue by
\* suspend_current_and_run_next is eventually switched to again
SpecSleepFair ==
    SpecSleep /\ WF_vars(Tick) /\ WF_vars(SleepCheck) /\ WF_vars(SleepResume)

(***************************************************************************)
(*                               properties                                *)
(***************************************************************************)

\* C1: sys_brk(0) returns the current heap end and changes nothing, and for
\* every x >= heap_base, x # 0, sys_brk(x) followed by sys_brk(0) returns x
\* rounded up to the page size.  (brk_last is the call before the step,
\* brk_last' the call the step makes.)
C1_BrkRoundTrip ==
    [][ brk_last'.addr = 0 =>
          /\ brk_last'.ret = heap_end
          /\ heap_end' = heap_end
          /\ heap_mapped' = heap_mapped
          /\ (brk_last.addr # 0 /\ brk_last.addr >= heap_base)
                => brk_last'.ret = AlignUp(brk_last.addr) ]_vars

\* the zombie children of the caller that match pid, by index in the list
ReadyChildren(pid) ==
    { i \in 1 .. Len(children) : MatchesPid(pid, children[i]) /\ is_zombie[children[i]] }
MatchingChildren(pid) ==
    { i \in 1 .. Len(children) : MatchesPid(pid, children[i]) }
\* the step is a pass of the loop of sys_wait4 called with a WaitOption word
Wait4Step == wait_last'.op = "wait4" /\ WaitOption_from_bits(wait_last'.option).some

\* C2: when the caller has a zombie child matching pid, sys_wait4 returns that
\* child's pid, stores that child's exit code through a non-null
\* exit_code_ptr, and removes exactly that child from the children list, so
\* that the pid is no child any more and a second wait4 for it finds none.
C2_WaitReapsZombie ==
    [][ (Wait4Step /\ ReadyChildren(wait_last'.pid) # {}) =>
          /\ wait_last'.kind = "return"
          /\ \E i \in ReadyChildren(wait_last'.pid) :
                /\ wait_last'.ret = children[i]
                /\ children' = RemoveAt(children, i)
                /\ ~wait_last'.ptr_null => user_exit_code' = exit_code[children[i]]
          /\ wait_last'.ret \notin Range(children')
          /\ wait4_loop(children', is_zombie', exit_code', wait_last'.ret, TRUE, 0).ret = ECHILD
      ]_vars

\* C2 witness: a wait4 with a non-null pointer returned a child's pid and
\* stored the exit code 42, and another child is still in the list
C2_Witness ==
    /\ wait_last.op = "wait4" /\ wait_last.kind = "return"
    /\ wait_last.ret \in ChildPids
    /\ ~wait_last.ptr_null /\ user_exit_code = Some(42)
    /\ Len(children) >= 1
    /\ wait_last.ret \notin Range(children)

C5_DupAliases ==
    [][ (fd_last'.op = "dup" /\ fd_last'.ret >= 0) =>
          LET a == fd_last'.fd
              b == fd_last'.ret
          IN  /\ a < Len(fd_table) /\ Slot(fd_table, a) # NoFile
              /\ b # a
              /\ b < Len(fd_table')
              /\ b < Len(fd_table) => Slot(fd_table, b) = NoFile
              /\ Slot(fd_table', b) = Slot(fd_table, a)
              /\ Slot(fd_table', a) = Slot(fd_table', b)
              /\ \A fd \in 0 .. (Len(fd_table) - 1) :
                    fd # b => Slot(fd_table', fd) = Slot(fd_table, fd)
              /\ Len(fd_table') = IF b < Len(fd_table) THEN Len(fd_table) ELSE b + 1
      ]_vars

\* C5 witness: a dup returned a new fd and both fds hold one open file object
C5_Witness ==
    /\ fd_last.op = "dup" /\ fd_last.ret >= 0
    /\ fd_last.ret # fd_last.fd
    /\ Slot(fd_table, fd_last.fd) # NoFile
    /\ Slot(fd_table, fd_last.fd) = Slot(fd_table, fd_last.ret)

\* C6: a signal raised by kill while it is in the caller's signal mask stays
\* pending as long as it is masked and is not delivered while masked (and is
\* then delivered once when unmasked).  Stated for the steps of the model:
\* kill(CurPid, s) with s masked leaves s pending, a masked pending signal
\* stays pending while the mask keeps it, and no delivery takes a masked one.
C6_MaskedStaysPending ==
    [][ /\ ( /\ sig_last'.op = "kill" /\ sig_last'.pid = CurPid
             /\ SigBit(sig_last'.signum) \in signal_mask )
           => SigBit(sig_last'.signum) \in signals'[CurPid]
        /\ \A b \in SignalFlagBits :
             (b \in signals[CurPid] /\ b \in signal_mask /\ b \in signal_mask')
               => b \in signals'[CurPid]
        /\ sig_last'.op = "deliver" => SigBit(sig_last'.signum) \notin signal_mask
      ]_vars

\* C7: sys_sigprocmask with a non-null set makes the mask old|set for
\* SIG_BLOCK, old&~set for SIG_UNBLOCK and set for SIG_SETMASK; a non-null
\* oldset receives the mask as it was before the call; with a null set the
\* mask is unchanged; with any other how the call returns an error and the
\* mask is unchanged.
C7_SigprocmaskApplies ==
    [][ sig_last'.op = "sigprocmask" =>
          LET how == sig_last'.how
              set == sig_last'.set
          IN  /\ (~sig_last'.set_null /\ how = SIG_BLOCK)
                    => signal_mask' = signal_mask \cup set
              /\ (~sig_last'.set_null /\ how = SIG_UNBLOCK)
                    => signal_mask' = signal_mask \ set
              /\ (~sig_last'.set_null /\ how = SIG_SETMASK)
                    => signal_mask' = set
              /\ ~sig_last'.old_null => user_old_set' = SomeFlags(signal_mask)
              /\ sig_last'.set_null => signal_mask' = signal_mask
              /\ how \notin {SIG_BLOCK, SIG_UNBLOCK, SIG_SETMASK}
                    => (sig_last'.kind = "return" /\ sig_last'.ret < 0
                          /\ signal_mask' = signal_mask)
              /\ sig_last'.kind = "return"
      ]_vars

\* C8: in every reachable state the caller's signal mask contains neither
\* SIGKILL nor SIGSTOP.
C8_KillStopNeverMasked ==
    SigBit(SIGKILL) \notin signal_mask /\ SigBit(SIGSTOP) \notin signal_mask

\* C9: sys_sigaction with sig = SIGKILL or SIGSTOP returns EINVAL and leaves
\* the signal action table unchanged, whatever action pointer is supplied.
C9_SigactionRejectsKillStop ==
    [][ (sig_last'.op = "sigaction" /\ sig_last'.signum \in {SIGKILL, SIGSTOP}) =>
          /\ sig_last'.kind = "return"
          /\ sig_last'.ret = EINVAL
          /\ signal_actions' = signal_actions
      ]_vars

\* C10: for an existing pid and a valid signal number s, sys_kill(pid, s)
\* returns 0 and the target's pending set becomes its previous pending set
\* plus exactly the signal numbered s, no other pending set changing; for a
\* pid with no process it returns ESRCH and changes no pending set.
C10_KillRaisesSignal ==
    [][ sig_last'.op = "kill" =>
          LET pid == sig_last'.pid
              s == sig_last'.signum
          IN  /\ pid \in ProcPids =>
                    /\ sig_last'.ret = 0
                    /\ signals' = [signals EXCEPT ![pid] = @ \cup {SigBit(s)}]
              /\ pid \notin ProcPids =>
                    /\ sig_last'.ret = ESRCH
                    /\ signals' = signals
      ]_vars

(***************************************************************************)
(*                   properties of the FAT32 volume                        *)
(***************************************************************************)
\* the directory holds a live entry for name: a short entry of that name
\* that is neither deleted nor empty
NamePresent(d, name) ==
    \E i \in 1 .. Len(d) : d[i].kind = "short" /\ d[i].name = name

\* C11: write_at(off, buf) followed by read_at(off, buf2) on the same file
\* with buf2.len() = buf.len() returns the bytes just written, up to the end
\* of the file (taken here as the size the file's inode holds), also when the
\* range spans more than one cluster.
C11_WriteReadRoundTrip ==
    [][ (/\ fs_last.op = "write_at"
         /\ fs_last'.op = "read_at"
         /\ fs_last'.name = fs_last.name
         /\ fs_last'.off = fs_last.off
         /\ fs_last'.len = fs_last.len) =>
          LET avail == IF fs_last.size > fs_last.off THEN fs_last.size - fs_last.off ELSE 0
          IN  /\ fs_last'.kind = "return"
              /\ fs_last'.out = SubSeq(fs_last.buf, 1, min(fs_last.len, avail))
      ]_vars

\* C12: a write_at(off, buf) that reaches past the end of the file's cluster
\* chain extends the chain by allocating clusters, writes all buf.len()
\* bytes, and persists the new size in the directory entry: a later find of
\* the name yields an inode of size max(old size, off + buf.len()).
C12_WriteExtendsFile ==
    [][ (/\ fs_last'.op = "write_at"
         /\ fs_last'.off + fs_last'.len >
                CLUSTER_SIZE * Len(cluster_chain(fat, fs_last'.start).chain)) =>
          LET end == fs_last'.off + fs_last'.len
          IN  /\ fs_last'.ret = fs_last'.len
              /\ CLUSTER_SIZE * Len(cluster_chain(fat', fs_last'.start).chain) >= end
              /\ find(dir', fs_last'.name).kind = "some"
              /\ find(dir', fs_last'.name).inode.fize_size =
                    (IF fs_last'.size >= end THEN fs_last'.size ELSE end)
      ]_vars

\* C13: for any directory state and any name not present in it,
\* insert_dentry(name, attr, size, start) terminates, and a following
\* find(name) returns an inode whose start cluster and size are the values
\* given to insert_dentry.
C13_InsertThenFind ==
    [][ (fs_last'.op = "insert_dentry" /\ ~NamePresent(dir, fs_last'.name)) =>
          /\ fs_last'.kind = "return"
          /\ find(dir', fs_last'.name) =
                [kind |-> "some", inode |-> Inode(fs_last'.start, fs_last'.size)]
      ]_vars

\* C14: after remove_dentry, or unlink, of an existing name, find(name)
\* returns none and find of every other name returns what it returned before
\* the removal.
C14_RemoveThenFind ==
    [][ (/\ fs_last'.op \in {"remove_dentry", "unlinkat"}
         /\ NamePresent(dir, fs_last'.name)) =>
          /\ fs_last'.kind = "return"
          /\ find(dir', fs_last'.name).kind = "none"
          /\ \A other \in FileNames \ {fs_last'.name} : find(dir', other) = find(dir, other)
      ]_vars

\* the start clusters of the live files of the directory
LiveStarts(d) == { d[i].start : i \in { j \in 1 .. Len(d) : d[j].kind = "short" } }

\* C15: in every state of the volume reached through cluster allocation,
\* dentry insertion and writes, cluster_chain(c) terminates for the start
\* cluster c of every live file (and of the root directory) and returns a
\* sequence in which no cluster id occurs twice.
C15_ChainTerminatesNoRepeat ==
    \A c \in LiveStarts(dir) \cup {RootCluster} :
        LET r == cluster_chain(fat, c)
        IN  /\ r.done
            /\ \A i, j \in 1 .. Len(r.chain) : r.chain[i] = r.chain[j] => i = j

\* C15 witness: after an allocation has claimed a cluster, a file that was
\* written to has a chain of two clusters
C15_Witness ==
    /\ fs_last.op = "write_at"
    /\ \E k \in Clusters : FatOfDir[k] = FreeEntry /\ fat[k] = EOC
    /\ \E c \in LiveStarts(dir) : Len(cluster_chain(fat, c).chain) = 2

\* C16: iterating a directory with get_dentry yields only live entries,
\* never a tombstone, and returns None at the end-of-directory marker (a slot
\* whose first byte is 0x00) or at the end of the cluster chain; hence the
\* loops over get_dentry in find, create, unlink and ls end without a panic,
\* and find of an absent name returns None.
C16_GetDentryLiveOnly ==
    /\ \A pos \in 0 .. (DirSlots - 1) :
          LET g == get_dentry(dir, pos)
          IN  /\ SlotAt(dir, pos).kind = "empty" => g.kind = "none"
              /\ g.kind = "some" => ~g.dentry.deleted
    /\ fs_last.op \in {"find", "create", "unlinkat", "ls"} => fs_last.kind # "panic"
    /\ (fs_last.op = "find" /\ fs_last.name \in FileNames
            /\ ~NamePresent(dir, fs_last.name)) =>
          (fs_last.kind = "return" /\ ~fs_last.some)

\* C17: create(name, mode) with a name that already exists in the directory
\* returns None, allocates no cluster and writes no directory entry: the FAT
\* and the directory are unchanged.
C17_CreateExisting ==
    [][ (fs_last'.op = "create" /\ NamePresent(dir, fs_last'.name)) =>
          /\ fs_last'.kind = "return"
          /\ ~fs_last'.some
          /\ fat' = fat
          /\ dir' = dir
      ]_vars

\* C18: unlinking a path that does not exist reports failure: unlink returns
\* false, sys_unlinkat returns the negative error ENOENT, and no directory
\* entry is modified.
C18_UnlinkAbsent ==
    [][ (/\ fs_last'.op = "unlinkat"
         /\ fs_last'.name \in FileNames
         /\ ~NamePresent(dir, fs_last'.name)) =>
          /\ fs_last'.kind = "return"
          /\ fs_last'.ret = ENOENT
          /\ dir' = dir
      ]_vars

C20_StrideFairness ==
    /\ [](\A t \in DOMAIN run_count :
            /\ run_count[t] >= (Rounds \div Len(ready_queue)) - 1
            /\ run_count[t] <= (Rounds \div Len(ready_queue)) + 1)
    /\ [][ \A i \in 1 .. Len(ready_queue) :
             run_count'[ready_queue[i].tid] # run_count[ready_queue[i].tid] =>
                /\ \A j \in 1 .. Len(ready_queue) :
                      ready_queue[i].stride <= ready_queue[j].stride
                /\ \A j \in 1 .. (i - 1) :
                      ready_queue[j].stride > ready_queue[i].stride
         ]_vars

\* C20 witness: three tasks have shared at least seven rounds, and the
\* strides have been normalised on the way
C20_Witness ==
    /\ Len(ready_queue) >= 3
    /\ Rounds >= 7
    /\ \E i \in 1 .. Len(ready_queue) :
          ready_queue[i].stride < run_count[ready_queue[i].tid] * ready_queue[i].pass

\* C21: in every reachable state each TCB has pass = BIG_STRIDE / priority
\* with priority in [2, 255], also after sys_set_priority has been called
\* with any argument.
C21_PassMatchesPriority ==
    \A i \in 1 .. Len(ready_queue) :
        /\ ready_queue[i].priority \in 2 .. 255
        /\ ready_queue[i].pass = BIG_STRIDE \div ready_queue[i].priority

\* C21 witness: sys_set_priority was called with an argument outside
\* [2, 255] after the tasks had run
C21_Witness ==
    /\ sched_last.prio = 256
    /\ Rounds >= 3
    /\ Len(ready_queue) >= 2

(***************************************************************************)
(*                 properties of the syscall argument words                *)
(***************************************************************************)
\* C22: no syscall panics the kernel on argument words from the user:
\* sys_wait4 with option bits outside WaitOption, sys_open with flag bits
\* outside OpenFlags and sys_sigprocmask with a set holding undefined signal
\* bits each return an error value and leave the kernel state unchanged.
C22_NoPanicOnArgWords ==
    [][ /\ (wait_last' # wait_last /\ wait_last'.op = "wait4"
               /\ ~WaitOption_from_bits(wait_last'.option).some) =>
              /\ ~panicked'
              /\ wait_last'.ret < 0
              /\ children' = children
        /\ (sig_last' # sig_last /\ sig_last'.op = "sigprocmask"
               /\ ~SignalFlags_from_bits(sig_last'.set).some) =>
              /\ ~panicked'
              /\ sig_last'.ret < 0
              /\ signal_mask' = signal_mask
        /\ (fd_last' # fd_last /\ fd_last'.op = "open"
               /\ ~OpenFlags_from_bits(fd_last'.flags).some) =>
              /\ ~panicked'
              /\ fd_last'.ret < 0
              /\ fd_table' = fd_table
      ]_vars

(***************************************************************************)
(*                   properties of the blocking syscalls                   *)
(***************************************************************************)
\* C23: whenever a thread calls suspend_current_and_run_next from a syscall
\* (sys_wait4, sys_sleep, sys_yield, the blocking read and write reached from
\* sys_read and sys_write), it holds no exclusive access to a PCB or TCB
\* inner and no other lock at the moment of the call.
C23_NoLockAtSuspend ==
    \A t \in Threads : AtStmt(t).op = "suspend" => held[t] = {}

\* a thread suspended inside sys_wait4 while the other one is inside sys_read
\* with the process inner borrowed
C23_Witness ==
    /\ sys_pc[1].call = "sys_wait4" /\ sys_pc[1].pos = 12
    /\ cur_task = 2
    /\ ProcessInner \in held[2]

(***************************************************************************)
(*                         properties of sys_clone                         *)
(***************************************************************************)
\* C24: sys_clone with CLONE_THREAD and stack == 0 is rejected: it returns an
\* error, and no new TCB is created in the process.
C24_CloneThreadNullStack ==
    [][ (sched_last' # sched_last /\ sched_last'.op = "clone" /\ sched_last'.stack = 0) =>
            /\ ~panicked'
            /\ sched_last'.ret < 0
            /\ ready_queue' = ready_queue
      ]_vars

\* C36: sys_clone with the exit-signal byte of flags 0 (a CLONE_THREAD call
\* that names no exit signal) completes: no arithmetic underflow, no shift
\* overflow, no panic.
C36_CloneNoExitSignal ==
    [][ (sched_last' # sched_last /\ sched_last'.op = "clone" /\ sched_last'.signal = 0) =>
            ~panicked' ]_vars

(***************************************************************************)
(*                           properties of pipes                           *)
(***************************************************************************)
\* C25: after sys_pipe succeeds the two fds written to user memory are
\* distinct, neither was an occupied slot before the call, the first refers
\* to the read end and the second to the write end of the same new pipe; and
\* the bytes written to the write fd are returned by the reads on the read fd
\* in the order written.
C25_PipeFdsAndOrder ==
    /\ [](\A k \in 1 .. Len(pipes) : pipes[k].written = pipes[k].read \o pipes[k].buf)
    /\ [][ /\ (fd_last' # fd_last /\ fd_last'.op = "pipe" /\ fd_last'.ret = 0) =>
                LET r == fd_last'.data[1]
                    w == fd_last'.data[2]
                    k == Len(pipes')
                IN  /\ r # w
                    /\ r < Len(fd_table) => Slot(fd_table, r) = NoFile
                    /\ w < Len(fd_table) => Slot(fd_table, w) = NoFile
                    /\ k = Len(pipes) + 1
                    /\ pipes'[k].buf = <<>>
                    /\ Slot(fd_table', r) = PipeRead(k)
                    /\ Slot(fd_table', w) = PipeWrite(k)
           /\ (pipes' # pipes /\ fd_last'.op = "read") =>
                LET k == PipeOf(Slot(fd_table, fd_last'.fd))
                IN  /\ fd_last'.ret = Len(fd_last'.data)
                    /\ pipes'[k].read = pipes[k].read \o fd_last'.data
                    /\ pipes'[k].written = pipes[k].written
         ]_vars

\* write(w, "abc", 3) then read(r, buf, 3) on a pipe whose fds are slots
\* freed by close: the read returns 3 and the three bytes in order
C25_Witness ==
    /\ fd_last.op = "read" /\ fd_last.ret = 3 /\ fd_last.data = <<1, 2, 3>>
    /\ Len(pipes) >= 1 /\ pipes[1].written = <<1, 2, 3>>
    /\ Slot(fd_table, 0) = PipeRead(1)

(***************************************************************************)
(*                         properties of the heap                          *)
(***************************************************************************)
\* C26: after any sequence of sys_brk calls the mapped heap pages are exactly
\* the pages covering [heap_base, heap_end): a shrink leaves no stale mapped
\* page above heap_end, and a grow never asks map_heap to map a page that is
\* already mapped.
C26_HeapPagesExact ==
    /\ [](heap_mapped = map_heap({}, heap_base, heap_end))
    /\ [][ (brk_last'.addr >= heap_base /\ AlignUp(heap_end) < brk_last'.addr) =>
              map_heap({}, heap_end, AlignUp(brk_last'.addr)) \cap heap_mapped = {}
         ]_vars

\* C27: the value returned by a successful sys_brk(x), x >= heap_base, is the
\* heap end that an immediately following sys_brk(0) returns, on the grow
\* path and on the shrink path.
C27_BrkReturnsHeapEnd ==
    [][ (brk_last'.addr # 0 /\ brk_last'.addr >= heap_base) =>
            brk_last'.ret = sys_brk(heap_base', heap_end', heap_mapped', 0).ret ]_vars

C29_ReadAtClamped ==
    [][ fs_last'.op = "read_at" =>
          LET chain == cluster_chain(fat, fs_last'.start).chain
              RECURSIVE Bytes(_)
              Bytes(i) == IF i > Len(chain) THEN <<>>
                          ELSE read_cluster(data, chain[i]) \o Bytes(i + 1)
              off == fs_last'.off
              n == IF off < fs_last'.size THEN min(fs_last'.len, fs_last'.size - off) ELSE 0
          IN  /\ fs_last'.kind = "return"
              /\ fs_last'.ret = n
              /\ fs_last'.out = SubSeq(Bytes(1), off + 1, off + n)
      ]_vars

(***************************************************************************)
(*                     properties of the directory cursor                  *)
(***************************************************************************)
\* C30: when the cursor is at the last entry of the last sector of cluster c,
\* next_dentry_id returns (first sector of the FAT successor of c, offset 0),
\* or None when c is the end of its chain; in all other cases it returns the
\* next aligned slot; and every offset returned is a multiple of the entry
\* size below the sector size.
C30_CursorCrossesCluster ==
    [][ (/\ fs_last'.op = "next_dentry_id"
         /\ fs_last'.off < SectorSize
         /\ fs_last'.off % DentrySize = 0) =>
          LET layout == [root_sector |-> fs_last'.size, sectors_per_cluster |-> fs_last'.len]
              sector == fs_last'.start
              c == 2 + ((sector - layout.root_sector) \div layout.sectors_per_cluster)
              i == (sector - layout.root_sector) % layout.sectors_per_cluster
              last_entry == fs_last'.off + DentrySize >= SectorSize
              last_sector == i = layout.sectors_per_cluster - 1
              succ == next_cluster_id(fat, c)
          IN  /\ (~last_entry) =>
                    fs_last'.some /\ fs_last'.out = <<sector, fs_last'.off + DentrySize>>
              /\ (last_entry /\ ~last_sector) =>
                    fs_last'.some /\ fs_last'.out = <<sector + 1, 0>>
              /\ (last_entry /\ last_sector /\ succ.some) =>
                    /\ fs_last'.some
                    /\ fs_last'.out = <<cluster_id_to_sector_id(layout, succ.val), 0>>
              /\ (last_entry /\ last_sector /\ ~succ.some) => ~fs_last'.some
              /\ fs_last'.some =>
                    fs_last'.out[2] < SectorSize /\ fs_last'.out[2] % DentrySize = 0
      ]_vars

(***************************************************************************)
(*                      properties of the entry sets                       *)
(***************************************************************************)
\* C31: insert_dentry writes ceil(len(name) / 13) long entries in reverse
\* numeric order, the first entry written (lowest slot) carrying the highest
\* order number and the last-chunk bit, then the short entry right after
\* them, in consecutive slots from the first slot whose first byte is 0x00;
\* no other slot is modified.  (Stated for names whose entries fit between
\* that slot and the end of the directory's cluster.)
C31_InsertLayout ==
    [][ (/\ fs_last'.op = "insert_dentry"
         /\ \E i \in 1 .. Len(dir) : dir[i].kind = "empty") =>
          LET name == fs_last'.name
              n == (Len(name) + LongChunk - 1) \div LongChunk
              p == CHOOSE i \in 1 .. Len(dir) :
                      dir[i].kind = "empty" /\ \A j \in 1 .. (i - 1) : dir[j].kind # "empty"
              chunk(o) == SubSeq(name, (o - 1) * LongChunk + 1, min(o * LongChunk, Len(name)))
          IN  (p + n <= Len(dir)) =>
                /\ fs_last'.kind = "return"
                /\ \A k \in 0 .. (n - 1) :
                      dir'[p + k] = LongSlot(n - k, chunk(n - k), k = 0)
                /\ dir'[p + n] = ShortSlot(name, fs_last'.start, fs_last'.size)
                /\ \A i \in 1 .. Len(dir) : (i < p \/ i > p + n) => dir'[i] = dir[i]
      ]_vars

\* C32: when insert_dentry reaches the end of the directory's cluster chain
\* before all entries of the new name are written, it allocates a cluster,
\* links it to the end of the directory's chain and goes on there; it does
\* not fail or panic.
C32_InsertExtendsChain ==
    [][ (/\ fs_last'.op = "insert_dentry"
         /\ SlotAt(dir, 0).kind = "empty"
         /\ ((Len(fs_last'.name) + LongChunk - 1) \div LongChunk) + 1 > Len(dir)) =>
          /\ fs_last'.kind = "return"
          /\ ~panicked'
          /\ next_cluster_id(fat', RootCluster).some
      ]_vars

\* C33: remove_dentry(d) for an entry with L >= 0 long entries sets the first
\* byte to 0xE5 in all L long entries of d's set and marks d's short entry
\* deleted, and modifies no directory entry outside that set.
C33_RemoveWholeSet ==
    [][ fs_last'.op = "remove_dentry" =>
          LET at == lookup(dir, fs_last'.name, 0).at
              short == ShortOf(dir, at)
          IN  /\ fs_last'.kind = "return"
              /\ \A pos \in 0 .. (Len(dir) - 1) :
                    IF pos >= at /\ pos <= short
                    THEN SlotAt(dir', pos).kind = "deleted"
                    ELSE SlotAt(dir', pos) = SlotAt(dir, pos)
      ]_vars


\* ---- properties of paths ----
\* C34: find("a/b") on a directory that holds a directory a which holds b
\* returns the inode find("b") gives on the directory find("a") gave, and
\* find("./x") returns what find("x") returns.
C34_FindWalksPath ==
    [][(fs_last'.op = "find" /\ Len(fs_last'.names) = 2) =>
         LET first == fs_last'.names[1]
             second == fs_last'.names[2]
             a == find(dir, first)
             b == find(SubDir, second)
             x == find(dir, second)
         IN  /\ (first # Dot /\ a.kind = "some" /\ b.kind = "some") =>
                    /\ fs_last'.kind = "return"
                    /\ fs_last'.some
                    /\ Inode(fs_last'.start, fs_last'.size) = b.inode
             /\ (first = Dot /\ x.kind # "panic") =>
                    /\ fs_last'.kind = "return"
                    /\ fs_last'.some = (x.kind = "some")
                    /\ Inode(fs_last'.start, fs_last'.size) = x.inode]_vars

\* C35: find, create and unlink never take the filesystem mutex while their
\* own thread holds it, whatever the number of components of the path.
C35_NoSelfDeadlock ==
    [][fs_last'.op \in {"find", "create", "unlink"} => fs_last'.kind # "deadlock"]_vars


\* ---- properties of the fd table ----
\* C37: sys_openat with a dirfd that is open but is no directory inode (a
\* pipe end, whose fstat is None, in particular) returns -1 and leaves the fd
\* table unchanged; the handle is never used as an OSInode.
C37_OpenAtNotADirectory ==
    [][ (fd_last'.op = "openat"
            /\ fd_last'.fd >= 0 /\ fd_last'.fd < Len(fd_table)
            /\ Slot(fd_table, fd_last'.fd) \notin {NoFile, OpenedDir}) =>
            /\ ~panicked'
            /\ fd_last'.ret = -1
            /\ fd_table' = fd_table ]_vars


\* C38: sys_dup3(fd, new_fd) returns -1 and leaves every slot's handle
\* unchanged when fd is out of range or empty or when new_fd is occupied
\* (new_fd = fd included); otherwise it returns new_fd, slot new_fd shares
\* fd's handle, and no other occupied slot changes.
C38_Dup3 ==
    [][ fd_last'.op = "dup3" =>
          LET fd == fd_last'.fd
              new_fd == fd_last'.data[1]
              Handle(tab, g) == IF g < Len(tab) THEN Slot(tab, g) ELSE NoFile
              slots == 0 .. (Len(fd_table') + Len(fd_table))
              bad == \/ Handle(fd_table, fd) = NoFile
                     \/ Handle(fd_table, new_fd) # NoFile
          IN  /\ bad => /\ ~panicked'
                        /\ fd_last'.ret = -1
                        /\ \A g \in slots : Handle(fd_table', g) = Handle(fd_table, g)
              /\ ~bad => /\ ~panicked'
                         /\ fd_last'.ret = new_fd
                         /\ Handle(fd_table', new_fd) = Handle(fd_table, fd)
                         /\ \A g \in slots \ {new_fd} :
                               Handle(fd_table', g) = Handle(fd_table, g) ]_vars


\* C39: sys_close(fd) returns -1 with the fd table unchanged when fd is out
\* of range or empty; otherwise it returns 0 and empties slot fd only, so a
\* slot that dup or dup3 made share the handle keeps it; and a sys_close(fd)
\* that follows a successful sys_close(fd) returns -1.
C39_CloseOneSlot ==
    [][ fd_last'.op = "close" =>
          LET fd == fd_last'.fd
              open == fd < Len(fd_table) /\ Slot(fd_table, fd) # NoFile
          IN  /\ ~open => fd_last'.ret = -1 /\ fd_table' = fd_table
              /\ open => /\ fd_last'.ret = 0
                         /\ fd_table' = SetSlot(fd_table, fd, NoFile)
              /\ (fd_last.op = "close" /\ fd_last.ret = 0 /\ fd_last.fd = fd) =>
                     fd_last'.ret = -1 ]_vars

\* C39 witness: fd 0 was closed with 0 while slot 3, which dup or dup3 made
\* share the handle of stdin, still holds it
C39_Witness ==
    /\ fd_last.op = "close" /\ fd_last.fd = 0 /\ fd_last.ret = 0
    /\ fd_table = <<NoFile, Stdout, Stderr, Stdin>>


\* ---- properties of sys_sleep ----
\* C40: sys_sleep does not return before the clock has reached the end time
\* computed at entry, it suspends on every check that finds the end time not
\* reached, and with an advancing clock and a fair scheduler every call that
\* has computed its end time eventually returns 0.
C40_SleepReturns ==
    /\ [][ /\ (sleep.pc # "user" /\ sleep'.pc = "user") =>
                 /\ sleep.pc = "loop"
                 /\ clock >= sleep.end_time
                 /\ sleep'.ret = Some(0)
           /\ (sleep.pc = "loop" /\ sleep' # sleep /\ clock < sleep.end_time) =>
                 sleep'.pc = "suspended" ]_vars
    /\ (sleep.pc \in {"loop", "suspended"}) ~> (sleep.pc = "user" /\ sleep.ret = Some(0))

\* C40 witness: a call has returned 0 after it had suspended, at the last
\* tick of the clock
C40_Witness ==
    /\ sleep.pc = "user" /\ sleep.ret = Some(0) /\ sleep.yielded
    /\ clock = MaxClock

====
